---- MODULE Spec2Model ----
(***************************************************************************)
(* A model of the DeSteGo steganalysis engine (detect-stego):              *)
(*   - the LSB extraction protocol (lsb_extractor.go),                     *)
(*   - the concurrent batch scan (main.go, scanDirectoryConcurrent),       *)
(*   - finding aggregation and filtering (types.go, main.go),              *)
(*   - the JPEG structural parsers (jpeg_analyzer.go, the DCT parser).     *)
(*   - extraction without a length header and BruteForceLSB,               *)
(*   - the batch scan one file at a time (scanDirectorySequential).        *)
(*   - the DCT segment parser (ParseJPEGDCTCoefficients),                  *)
(*   - ExtractMessageLSB (steganography.go),                               *)
(*   - the statistical engine (statistical_analysis.go),                   *)
(*   - the false-positive stage (FalsePositiveCheck.EvaluateDetection).    *)
(* Each part has its own specification; the variables of the other parts   *)
(* stay at their idle values.                                              *)
(***************************************************************************)
EXTENDS Integers, Sequences, FiniteSets, TLC

VARIABLES
    \* ---- LSB extraction ----
    grid,       \* the pixel grid in raster-scan order: a sequence of <<R,G,B,A>>
    gridW,      \* bounds.Dx()
    gridH,      \* bounds.Dy()
    mask,       \* ChannelMask as <<RBits,GBits,BBits,ABits>>
    order,      \* BitOrder
    lsbPc,      \* "blank" -> "embedded" -> "extracted"
    hdr,        \* the four bytes written as the big-endian length header
    payload,    \* the payload bytes written after the header
    lsbRes,     \* the value returned by ExtractData
    allocRes,   \* the payload buffer the last extraction allocated
    statRes     \* dist.AnomalyScore of the last AnalyzeLSBStatistics

    ,
    \* ---- concurrent batch scan (scanDirectoryConcurrent) ----
    nFiles,           \* len(files): the paths are 1..nFiles
    mainPc,           \* where the calling goroutine is
    fed,              \* how many paths the feed loop has sent on fileChan
    fileChanClosed,   \* close(fileChan) has run
    resultChanClosed, \* close(resultChan) has run
    wPc,              \* per worker: "recv", "scan", "send" or "done"
    wFile,            \* per worker: the path it received (0: none)
    wResult,          \* per worker: the ScanResult it holds
    aggPc,            \* the collecting goroutine: "recv", "append", "count", "done"
    aggResult,        \* the ScanResult the collector received
    results,          \* the shared ScanResults
    returned          \* the ScanResults value the call returned
    ,
    \* ---- one file's ScanResult (scanFile) ----
    sr,               \* the ScanResult: [Findings, Level]
    srPc,             \* "detect" while detectors run, "emitted" once returned
    srFiltered,       \* whether filterFindings ran before the return
    detection         \* the ScanResults handed to EvaluateDetection, and its answer
    ,
    \* ---- JPEG structural parsing ----
    jpegIn,           \* how the byte buffer was put together (see JPEG inputs)
    jpegData,         \* the byte buffer: the file's bytes
    jpegRes,          \* what ExtractJPEGMetadata returned for jpegData
    entropyRes,       \* what extractEntropyCodedData returned for jpegData
    appendedRes,      \* what CheckAppendedData returned for jpegData
    dctRes            \* what ParseJPEGDCTCoefficients returned for jpegData
    ,
    \* ---- extraction without a length header, and BruteForceLSB ----
    rawRes,           \* what ExtractLSBNoLength returned for grid, mask, order
    bfPc,             \* where BruteForceLSB is: "tier1Length", "tier1NoLength",
                      \* "decide", "exhaustive" or "returned"
    bfI,              \* position in commonMasks x {LSBFirst, MSBFirst}
    bfR,              \* rBits
    bfG,              \* gBits
    bfB,              \* bBits
    bfResults,        \* results: a sequence of [Mask, Order, Data]
    bfCalls           \* the extractions made so far, in order
    ,
    \* ---- sequential batch scan (scanDirectorySequential) ----
    files,            \* the files of the directory, in the order of the walk
    batchPc,          \* "scan", "update", "returned" or "panicked"
    batchI,           \* the file the loop is at (1-based)
    batchResult,      \* result: what scanFile returned for that file
    batchResults      \* results.Results

lsbVars == <<grid, gridW, gridH, mask, order, lsbPc, hdr, payload, lsbRes,
             allocRes, statRes>>

scanVars == <<nFiles, mainPc, fed, fileChanClosed, resultChanClosed, wPc, wFile,
              wResult, aggPc, aggResult, results, returned>>

findVars == <<sr, srPc, srFiltered, detection>>

jpegVars == <<jpegIn, jpegData, jpegRes, entropyRes, appendedRes, dctRes>>

searchVars == <<rawRes, bfPc, bfI, bfR, bfG, bfB, bfResults, bfCalls>>

batchVars == <<files, batchPc, batchI, batchResult, batchResults>>

vars == <<lsbVars, scanVars, findVars, jpegVars, searchVars, batchVars>>

(***************************************************************************)
(* Bounds of the model.                                                    *)
(***************************************************************************)
MaxW == 13
MaxH == 4
MaxPayloadLen == 2
MaxFiles == 2
MaxFindings == 2
MaxScanLen == 3
MaxTrail == 2
MaxDeclared == 9
MaxBody == 7
MaxRaw == 5
MaxPrePixels == 2
MaxZeroPixels == 10
MaxPostPixels == 1
MaxBBits == 3
MaxSlack == 1

(***************************************************************************)
(* Program constants.                                                      *)
(***************************************************************************)
LSBFirst == 0
MSBFirst == 1
neededLengthBits == 32
MaxLength == 100000000
workerCount == 4
zeroRunLength == 20

\* DetectionLevel
Clean == 0
Suspicious == 1
ConfirmedC2 == 2

\* JPEG markers
markerPrefix == 255
markerSOI == 216
markerAPP0 == 224
markerAPP1 == 225
markerDQT == 219
markerSOF0 == 192
markerSOF2 == 194
markerDHT == 196
markerSOS == 218
markerCOM == 254
markerEOI == 217
Levels == {Clean, Suspicious, ConfirmedC2}

BitOrders == {LSBFirst, MSBFirst}

\* Error values of ExtractData (the messages of the errors it returns).
ErrMask == "channel mask has 0 total bits"
ErrNoLength == "not enough pixels to read 32-bit length"
ErrInvalidLength == "invalid length"
ErrShortPayload == "not enough bits to read the entire payload"

\* The error classes the specification names.
InvalidMask == {ErrMask}
InsufficientCapacity == {ErrNoLength, ErrShortPayload}
InvalidLength == {ErrInvalidLength}

(***************************************************************************)
(* The idle values: what the variables of a part hold in the               *)
(* specifications of the other parts.                                      *)
(***************************************************************************)
NoScanResult == [file |-> 0, level |-> Clean]
EmptyScanResults ==
    [Results |-> <<>>, TotalFiles |-> 0, CleanFiles |-> 0, Suspicious |-> 0,
     ConfirmedC2 |-> 0]

\* No payload buffer allocated: make([]byte, length) not reached.
NotAllocated == [ran |-> FALSE, made |-> FALSE, size |-> <<0, 0, 0, 0>>]

\* AnalyzeLSBStatistics not called yet.
NotAnalyzed == [ran |-> FALSE, nan |-> FALSE, num |-> 0, den |-> 1]

LSBIdle ==
    /\ grid = <<>> /\ gridW = 0 /\ gridH = 0 /\ mask = <<0, 0, 0, 0>>
    /\ order = LSBFirst /\ lsbPc = "idle" /\ hdr = <<0, 0, 0, 0>>
    /\ payload = <<>> /\ lsbRes = [err |-> "", data |-> <<>>]
    /\ allocRes = NotAllocated /\ statRes = NotAnalyzed

ScanIdle ==
    /\ nFiles = 0 /\ mainPc = "idle" /\ fed = 0
    /\ fileChanClosed = FALSE /\ resultChanClosed = FALSE
    /\ wPc = <<>> /\ wFile = <<>> /\ wResult = <<>>
    /\ aggPc = "idle" /\ aggResult = NoScanResult
    /\ results = EmptyScanResults /\ returned = EmptyScanResults

\* A ScanResults no detector has written to, EvaluateDetection not called.
NoDetection ==
    [evaluated |-> FALSE, likely |-> FALSE,
     HiddenTextFound |-> FALSE, DetectedTexts |-> <<>>,
     LSBAnomaliesFound |-> FALSE, png |-> FALSE, LSBEntropy |-> 0,
     ImageComplexity |-> 0,
     FalsePositiveLikelihood |-> [num |-> 0, den |-> 1]]

FindingsIdle ==
    /\ sr = [Findings |-> <<>>, Level |-> Clean]
    /\ srPc = "idle" /\ srFiltered = FALSE
    /\ detection = NoDetection

\* JPEGMetadata as ExtractJPEGMetadata creates it, before the first marker.
NewMetadata ==
    [QuantizationTables |-> <<>>, HuffmanTables |-> <<>>, Comments |-> <<>>,
     Width |-> 0, Height |-> 0, Components |-> 0,
     HasAppendedData |-> FALSE, AppendedDataSize |-> 0,
     IsProgressive |-> FALSE, MarkerSequence |-> <<>>]

\* No call of ExtractJPEGMetadata / extractEntropyCodedData made yet.
NotParsed == [status |-> "none", err |-> "", metadata |-> NewMetadata]
NotExtracted == [ran |-> FALSE, data |-> <<>>]
NotLookedUp == [ran |-> FALSE, has |-> FALSE, size |-> 0]
NotDecoded == [ran |-> FALSE, status |-> "none", err |-> "", Blocks |-> <<>>]
NoJPEGInput ==
    [kind |-> "none", pre |-> <<>>, marker |-> 0, declared |-> 0, body |-> 0,
     L |-> <<>>, start |-> 0, eoi |-> FALSE, trail |-> 0]

NotRaw == [ran |-> FALSE, data |-> <<>>]

SearchIdle ==
    /\ rawRes = NotRaw /\ bfPc = "idle" /\ bfI = 0
    /\ bfR = 0 /\ bfG = 0 /\ bfB = 0
    /\ bfResults = <<>> /\ bfCalls = <<>>

BatchIdle ==
    /\ files = <<>> /\ batchPc = "idle" /\ batchI = 0
    /\ batchResult = [Findings |-> <<>>, Level |-> Clean]
    /\ batchResults = <<>>

JPEGIdle ==
    /\ jpegIn = NoJPEGInput /\ jpegData = <<>>
    /\ jpegRes = NotParsed /\ entropyRes = NotExtracted
    /\ appendedRes = NotLookedUp /\ dctRes = NotDecoded

(***************************************************************************)
(* Bit helpers.                                                            *)
(***************************************************************************)
Pow2(n) == 2 ^ n

\* (v >> k) & 1
Bit(v, k) == (v \div Pow2(k)) % 2

Min(a, b) == IF a < b THEN a ELSE b

TotalBits(m) == m[1] + m[2] + m[3] + m[4]

\* The variant that reads bit i from the right whatever the bit order.
SourceBitLSBOnly(val, bits, i, ord) == Bit(val, i)

\* The bit a channel contributes at loop index i (0-based), for `bits` bits.
SourceBit(val, bits, i, ord) ==
    IF ord = LSBFirst THEN Bit(val, i) ELSE Bit(val, (bits - 1) - i)

\* for i := 0; i < ch.bits; i++ { bit = ... }: the bits one channel yields
ChannelBits(val, bits, ord) ==
    [k \in 1..bits |-> SourceBit(val, bits, k - 1, ord)]

\* for _, ch := range channels: R, G, B, A in this order
PixelBits(px, m, ord) ==
    ChannelBits(px[1], m[1], ord) \o ChannelBits(px[2], m[2], ord)
        \o ChannelBits(px[3], m[3], ord) \o ChannelBits(px[4], m[4], ord)

\* dst[byteIndex] = (dst[byteIndex] << 1) | bit, over the eight bits of a byte
RECURSIVE ShiftIn(_, _, _)
ShiftIn(acc, bits, width) ==
    IF bits = <<>> THEN acc
    ELSE ShiftIn((acc * 2 + Head(bits)) % Pow2(width), Tail(bits), width)

\* The bytes of a bit sequence whose length is a multiple of 8.
PackBytes(bits) ==
    [k \in 1..(Len(bits) \div 8) |->
        ShiftIn(0, SubSeq(bits, 8 * (k - 1) + 1, 8 * k), 8)]

(***************************************************************************)
(* ExtractData, step 1: the 32-bit length.                                 *)
(* acc = [bits: the bits written to lengthBuf, read: lengthBitsRead,       *)
(* found: foundLength].                                                    *)
(***************************************************************************)
RECURSIVE LengthLoop(_, _, _, _, _)
LengthLoop(g, m, ord, p, acc) ==
    IF p > Len(g) THEN acc
    ELSE IF acc.read >= neededLengthBits
         THEN [acc EXCEPT !.found = TRUE]           \* break outerLoop
    ELSE LET slots == PixelBits(g[p], m, ord)
             take == Min(neededLengthBits - acc.read, Len(slots))
         IN LengthLoop(g, m, ord, p + 1,
                [bits |-> acc.bits \o SubSeq(slots, 1, take),
                 read |-> acc.read + take,
                 \* an inner iteration that finds lengthBitsRead >= 32
                 found |-> acc.found \/ Len(slots) > take])

(***************************************************************************)
(* ExtractData, step 2: the payload bits, read from the start of the grid  *)
(* again, skipping the first skipTarget bits.                              *)
(* acc = [skipped: bitsSkipped, bits: the data bits read].                 *)
(***************************************************************************)
\* One pixel of the loop.
DataPixel(g, m, ord, p, skipTarget, needed, acc) ==
    LET slots == PixelBits(g[p], m, ord)
        skip == Min(skipTarget - acc.skipped, Len(slots))
        rest == SubSeq(slots, skip + 1, Len(slots))
        take == Min(needed - Len(acc.bits), Len(rest))
    IN [skipped |-> acc.skipped + skip,
        bits |-> acc.bits \o SubSeq(rest, 1, take),
        \* an inner iteration that finds dataBitsRead >= dataBitsNeeded
        done |-> Len(rest) > take]

\* The pixels lo..hi in order, the first half and then the second.
RECURSIVE DataLoopRange(_, _, _, _, _, _, _, _)
DataLoopRange(g, m, ord, lo, hi, skipTarget, needed, acc) ==
    IF lo > hi \/ acc.done THEN acc
    ELSE IF lo = hi THEN DataPixel(g, m, ord, lo, skipTarget, needed, acc)
    ELSE LET mid == (lo + hi) \div 2
         IN DataLoopRange(g, m, ord, mid + 1, hi, skipTarget, needed,
                DataLoopRange(g, m, ord, lo, mid, skipTarget, needed, acc))

DataLoop(g, m, ord, p, skipTarget, needed, acc) ==
    DataLoopRange(g, m, ord, p, Len(g), skipTarget, needed, acc)

Failure(e) == [err |-> e, data |-> <<>>]

\* binary.BigEndian.Uint32(lengthBuf).  TLC's integers are 32-bit
\* signed, so the value is only formed when it is below 2^31 (buf[1] < 128).
Uint32(buf) == ((buf[1] * 256 + buf[2]) * 256 + buf[3]) * 256 + buf[4]

\* length == 0 || length > 100_000_000
LengthRejected(buf) ==
    \/ buf = <<0, 0, 0, 0>>
    \/ buf[1] >= 128                  \* length >= 2^31 > 100_000_000
    \/ Uint32(buf) > MaxLength

\* The variant that tolerates a payload one bit short.
PayloadShortOffByOne(read, needed) == read + 1 < needed

\* dataBitsRead < dataBitsNeeded
PayloadShort(read, needed) == read < needed

ExtractData(g, m, ord) ==
    IF TotalBits(m) <= 0 THEN Failure(ErrMask)
    ELSE LET hd == LengthLoop(g, m, ord, 1, [bits |-> <<>>, read |-> 0, found |-> FALSE])
             lengthBuf == PackBytes(hd.bits)
         IN IF ~hd.found THEN Failure(ErrNoLength)
            ELSE IF LengthRejected(lengthBuf) THEN Failure(ErrInvalidLength)
            ELSE LET needed == Uint32(lengthBuf) * 8
                     dt == DataLoop(g, m, ord, 1, hd.read, needed,
                                    [skipped |-> 0, bits |-> <<>>, done |-> FALSE])
                 IN IF PayloadShort(Len(dt.bits), needed) THEN Failure(ErrShortPayload)
                    ELSE [err |-> "", data |-> PackBytes(dt.bits)]

\* dataBuf := make([]byte, length) in ExtractData: whether the call reaches
\* it, and the four bytes of the length it is given.
DataBuf(g, m, ord) ==
    IF TotalBits(m) <= 0 THEN [ran |-> TRUE, made |-> FALSE, size |-> <<0, 0, 0, 0>>]
    ELSE LET hd == LengthLoop(g, m, ord, 1, [bits |-> <<>>, read |-> 0, found |-> FALSE])
             lengthBuf == PackBytes(hd.bits)
         IN IF ~hd.found \/ LengthRejected(lengthBuf)
            THEN [ran |-> TRUE, made |-> FALSE, size |-> <<0, 0, 0, 0>>]
            ELSE [ran |-> TRUE, made |-> TRUE, size |-> lengthBuf]


(***************************************************************************)
(* Writing a bit sequence into the raster-scan bit-stream of a grid: the   *)
(* stream's bit number s goes to the pixel, channel and bit position that  *)
(* the walk visits at step s (position i for LSBFirst, bits-1-i for        *)
(* MSBFirst); bits of the grid the stream does not reach keep their value. *)
(***************************************************************************)
\* The big-endian bits of v in `width` bits, most significant first.
ToBits(v, width) == [k \in 1..width |-> Bit(v, width - k)]

RECURSIVE BytesToBits(_)
BytesToBits(bs) ==
    IF bs = <<>> THEN <<>> ELSE ToBits(Head(bs), 8) \o BytesToBits(Tail(bs))

\* The four big-endian bytes of n (0 <= n < 2^31).
Uint32Bytes(n) ==
    << (n \div 16777216) % 256, (n \div 65536) % 256, (n \div 256) % 256, n % 256 >>

\* The length-prefixed message: 32-bit big-endian header h (four bytes), then
\* the payload bytes, each most significant bit first.
MessageBits(h, bs) == BytesToBits(h \o bs)

EmbedChannel(val, nb, ord, bits, base) ==
    LET idx(j) == IF ord = LSBFirst THEN j ELSE (nb - 1) - j
        newBit(j) == IF j < nb /\ base + idx(j) < Len(bits)
                     THEN bits[base + idx(j) + 1]
                     ELSE Bit(val, j)
    IN newBit(0) + 2 * newBit(1) + 4 * newBit(2) + 8 * newBit(3)
        + 16 * newBit(4) + 32 * newBit(5) + 64 * newBit(6) + 128 * newBit(7)

EmbedPixel(px, m, ord, bits, base) ==
    << EmbedChannel(px[1], m[1], ord, bits, base),
       EmbedChannel(px[2], m[2], ord, bits, base + m[1]),
       EmbedChannel(px[3], m[3], ord, bits, base + m[1] + m[2]),
       EmbedChannel(px[4], m[4], ord, bits, base + m[1] + m[2] + m[3]) >>

EmbedBits(g, m, ord, bits) ==
    [p \in 1..Len(g) |-> EmbedPixel(g[p], m, ord, bits, (p - 1) * TotalBits(m))]

(***************************************************************************)
(* The inputs of the LSB specification.                                    *)
(***************************************************************************)
ChannelMasks ==
    { <<1, 0, 0, 0>>, <<0, 1, 0, 0>>, <<0, 0, 1, 0>>, <<1, 1, 1, 0>>,
      <<3, 0, 2, 0>>, <<8, 5, 0, 0>>, <<2, 1, 0, 1>>, <<8, 8, 8, 8>>,
      <<0, 0, 0, 0>> }

\* Cover pixels: an all-zero image and one with mixed bits in every channel.
CoverPixels == { <<0, 0, 0, 0>>, <<165, 60, 255, 90>> }

PayloadBytes == {104, 255}

RECURSIVE SeqsUpTo(_, _)
SeqsUpTo(S, n) ==
    IF n = 0 THEN {<<>>}
    ELSE LET shorter == SeqsUpTo(S, n - 1)
         IN shorter \cup {Append(q, b) : q \in {r \in shorter : Len(r) = n - 1}, b \in S}

Payloads == SeqsUpTo(PayloadBytes, MaxPayloadLen)

\* Headers that do not state the length of what follows them.
HeaderProbes ==
    { <<0, 0, 0, 0>>, <<0, 0, 0, 2>>, Uint32Bytes(MaxLength),
      Uint32Bytes(MaxLength + 1), <<128, 0, 0, 0>>, <<255, 255, 255, 255>> }

ProbePayloads == { <<>>, <<104>> }

Capacity == gridW * gridH * TotalBits(mask)

LSBInputs ==
    /\ gridW \in 1..MaxW
    /\ gridH \in 0..MaxH
    /\ mask \in ChannelMasks
    /\ order \in BitOrders
    /\ \E c \in CoverPixels : grid = [p \in 1..(gridW * gridH) |-> c]
    /\ lsbPc = "blank"
    /\ hdr = <<0, 0, 0, 0>>
    /\ payload = <<>>
    /\ lsbRes = Failure("")
    /\ allocRes = NotAllocated /\ statRes = NotAnalyzed

\* An encoder writes header h and payload bs into the grid (as far as it fits).
Embed(h, bs) ==
    /\ lsbPc = "blank"
    /\ grid' = EmbedBits(grid, mask, order, MessageBits(h, bs))
    /\ hdr' = h
    /\ payload' = bs
    /\ lsbPc' = "embedded"
    /\ UNCHANGED <<gridW, gridH, mask, order, lsbRes, allocRes, statRes>>
    /\ UNCHANGED <<scanVars, findVars, jpegVars, searchVars, batchVars>>

\* A well-formed message: the header is the payload's length.
EmbedMessage == \E bs \in Payloads : Embed(Uint32Bytes(Len(bs)), bs)

\* Any other header, followed by some bytes.
EmbedHeader == \E h \in HeaderProbes : \E bs \in ProbePayloads : Embed(h, bs)

\* ExtractData(img, mask, bitOrder)
Extract ==
    /\ lsbPc = "embedded"
    /\ lsbRes' = ExtractData(grid, mask, order)
    /\ allocRes' = DataBuf(grid, mask, order)
    /\ lsbPc' = "extracted"
    /\ UNCHANGED <<grid, gridW, gridH, mask, order, hdr, payload, statRes>>
    /\ UNCHANGED <<scanVars, findVars, jpegVars, searchVars, batchVars>>

LSBInit == LSBInputs /\ ScanIdle /\ FindingsIdle /\ JPEGIdle /\ SearchIdle /\ BatchIdle

LSBNext == EmbedMessage \/ EmbedHeader \/ Extract

SpecLSB == LSBInit /\ [][LSBNext]_vars

(***************************************************************************)
(* Properties of the LSB extraction protocol (under SpecLSB).              *)
(***************************************************************************)
Extracted == lsbPc = "extracted"
ValidMask == TotalBits(mask) > 0
WellFormed == hdr = Uint32Bytes(Len(payload)) /\ Len(payload) >= 1
HeaderInvalid == LengthRejected(hdr)
HeaderLength == Uint32(hdr)          \* only used where ~HeaderInvalid
Success(bs) == [err |-> "", data |-> bs]

\* C1: round trip. A payload P of 1..MaxLength bytes written behind its 32-bit
\* big-endian length, with a valid mask and either bit order, into a grid that
\* offers at least 32 + 8*len(P) bits, is returned exactly and without error
\* by ExtractData called with the same mask and order.
C1_RoundTrip ==
    (Extracted /\ ValidMask /\ WellFormed /\ Len(payload) <= MaxLength
        /\ Capacity >= 32 + 8 * Len(payload))
    => lsbRes = Success(payload)

\* C1 witness: a two-byte payload read back MSB-first through a mask that
\* takes several bits of a channel, from a grid with room to spare.
C1_Witness ==
    /\ Extracted /\ WellFormed /\ Len(payload) = 2
    /\ payload[1] # payload[2]
    /\ mask = <<3, 0, 2, 0>> /\ order = MSBFirst
    /\ Capacity > 32 + 8 * Len(payload)
    /\ lsbRes = Success(payload)

\* C2: capacity boundary. With a valid mask, fewer than 32 usable bits always
\* fail with InsufficientCapacity; a header decoding to a valid N succeeds on
\* exactly 32 + 8N usable bits and fails with InsufficientCapacity on
\* 32 + 8N - 1.
C2_CapacityBoundary ==
    (Extracted /\ ValidMask) =>
        /\ Capacity < 32 => lsbRes.err \in InsufficientCapacity
        /\ (Capacity >= 32 /\ ~HeaderInvalid) =>
              /\ Capacity = 32 + 8 * HeaderLength
                    => (lsbRes.err = "" /\ Len(lsbRes.data) = HeaderLength)
              /\ Capacity = 32 + 8 * HeaderLength - 1
                    => lsbRes.err \in InsufficientCapacity

\* C2 witnesses: the three cases of the boundary.
C2_Witness ==
    /\ Extracted /\ ValidMask /\ ~HeaderInvalid
    /\ Capacity = 32 + 8 * HeaderLength - 1
    /\ lsbRes.err = ErrShortPayload

C2_WitnessExact ==
    /\ Extracted /\ ValidMask /\ ~HeaderInvalid
    /\ Capacity = 32 + 8 * HeaderLength
    /\ lsbRes.err = ""

C2_WitnessNoHeader ==
    /\ Extracted /\ ValidMask /\ Capacity < 32 /\ Capacity > 0
    /\ lsbRes.err = ErrNoLength

\* C3: length bound enforcement. On every grid that supplies at least 32
\* usable bits, a header that decodes to 0 or to more than 100,000,000 makes
\* ExtractData fail with InvalidLength, whatever follows the header.
C3_InvalidLength ==
    (Extracted /\ ValidMask /\ Capacity >= 32 /\ HeaderInvalid)
    => lsbRes.err \in InvalidLength

\* C3 as the code has it: the header is only recognised when the stream holds
\* a 33rd bit (foundLength is set by the check that precedes the next read).
C3_InvalidLengthBeyondHeader ==
    (Extracted /\ ValidMask /\ Capacity > 32 /\ HeaderInvalid)
    => lsbRes.err \in InvalidLength

C3_Reached ==
    /\ Extracted /\ ValidMask /\ Capacity = 32 /\ HeaderInvalid
    /\ lsbRes.err = ErrNoLength

(***************************************************************************)
(* The concurrent batch scan: scanDirectoryConcurrent.                     *)
(* fileChan and resultChan are unbuffered: a send and its receive are one  *)
(* step.  The state after the goroutines have been started.                *)
(***************************************************************************)
Workers == 1..workerCount

ScanInputs ==
    /\ nFiles \in 0..MaxFiles
    /\ mainPc = "feed"
    /\ fed = 0
    /\ fileChanClosed = FALSE
    /\ resultChanClosed = FALSE
    /\ wPc = [w \in Workers |-> "recv"]
    /\ wFile = [w \in Workers |-> 0]
    /\ wResult = [w \in Workers |-> NoScanResult]
    /\ aggPc = "recv"
    /\ aggResult = NoScanResult
    /\ results = [EmptyScanResults EXCEPT !.TotalFiles = nFiles]
    /\ returned = EmptyScanResults

\* for _, f := range files { fileChan <- f }, received by for f := range fileChan
Feed(w) ==
    /\ mainPc = "feed" /\ fed < nFiles
    /\ wPc[w] = "recv" /\ ~fileChanClosed
    /\ fed' = fed + 1
    /\ wFile' = [wFile EXCEPT ![w] = fed + 1]
    /\ wPc' = [wPc EXCEPT ![w] = "scan"]
    /\ UNCHANGED <<nFiles, mainPc, fileChanClosed, resultChanClosed, wResult,
                   aggPc, aggResult, results, returned>>
    /\ UNCHANGED <<lsbVars, findVars, jpegVars, searchVars, batchVars>>

\* The variant that forgets close(fileChan).
ForgetCloseFileChan ==
    /\ mainPc = "feed" /\ fed = nFiles
    /\ mainPc' = "wait"
    /\ UNCHANGED <<nFiles, fed, fileChanClosed, resultChanClosed, wPc, wFile,
                   wResult, aggPc, aggResult, results, returned>>
    /\ UNCHANGED <<lsbVars, findVars, jpegVars, searchVars, batchVars>>

\* close(fileChan), once the feed loop has ended
CloseFileChan ==
    /\ mainPc = "feed" /\ fed = nFiles
    /\ fileChanClosed' = TRUE
    /\ mainPc' = "wait"
    /\ UNCHANGED <<nFiles, fed, resultChanClosed, wPc, wFile, wResult, aggPc,
                   aggResult, results, returned>>
    /\ UNCHANGED <<lsbVars, findVars, jpegVars, searchVars, batchVars>>

\* result := scanFile(f): the level the file's findings give it
WorkerScan(w) ==
    /\ wPc[w] = "scan"
    /\ \E lvl \in Levels :
          wResult' = [wResult EXCEPT ![w] = [file |-> wFile[w], level |-> lvl]]
    /\ wPc' = [wPc EXCEPT ![w] = "send"]
    /\ UNCHANGED <<nFiles, mainPc, fed, fileChanClosed, resultChanClosed, wFile,
                   aggPc, aggResult, results, returned>>
    /\ UNCHANGED <<lsbVars, findVars, jpegVars, searchVars, batchVars>>

\* resultChan <- result, received by for result := range resultChan
Deliver(w) ==
    /\ wPc[w] = "send" /\ aggPc = "recv" /\ ~resultChanClosed
    /\ aggResult' = wResult[w]
    /\ aggPc' = "append"
    /\ wPc' = [wPc EXCEPT ![w] = "recv"]
    /\ UNCHANGED <<nFiles, mainPc, fed, fileChanClosed, resultChanClosed, wFile,
                   wResult, results, returned>>
    /\ UNCHANGED <<lsbVars, findVars, jpegVars, searchVars, batchVars>>

\* range fileChan ends on the closed channel; defer wg.Done()
WorkerExit(w) ==
    /\ wPc[w] = "recv" /\ fileChanClosed
    /\ wPc' = [wPc EXCEPT ![w] = "done"]
    /\ UNCHANGED <<nFiles, mainPc, fed, fileChanClosed, resultChanClosed, wFile,
                   wResult, aggPc, aggResult, results, returned>>
    /\ UNCHANGED <<lsbVars, findVars, jpegVars, searchVars, batchVars>>

\* updateResults: results.Results = append(results.Results, result)
AggAppend ==
    /\ aggPc = "append"
    /\ results' = [results EXCEPT !.Results = Append(@, aggResult)]
    /\ aggPc' = "count"
    /\ UNCHANGED <<nFiles, mainPc, fed, fileChanClosed, resultChanClosed, wPc,
                   wFile, wResult, aggResult, returned>>
    /\ UNCHANGED <<lsbVars, findVars, jpegVars, searchVars, batchVars>>

\* updateResults: switch result.Level { case Clean: results.CleanFiles++ ... }
CountLevel(r, lvl) ==
    IF lvl = Clean THEN [r EXCEPT !.CleanFiles = @ + 1]
    ELSE IF lvl = Suspicious THEN [r EXCEPT !.Suspicious = @ + 1]
    ELSE IF lvl = ConfirmedC2 THEN [r EXCEPT !.ConfirmedC2 = @ + 1]
    ELSE r

AggCount ==
    /\ aggPc = "count"
    /\ results' = CountLevel(results, aggResult.level)
    /\ aggPc' = "recv"
    /\ UNCHANGED <<nFiles, mainPc, fed, fileChanClosed, resultChanClosed, wPc,
                   wFile, wResult, aggResult, returned>>
    /\ UNCHANGED <<lsbVars, findVars, jpegVars, searchVars, batchVars>>

\* range resultChan ends on the closed channel
AggExit ==
    /\ aggPc = "recv" /\ resultChanClosed
    /\ aggPc' = "done"
    /\ UNCHANGED <<nFiles, mainPc, fed, fileChanClosed, resultChanClosed, wPc,
                   wFile, wResult, aggResult, results, returned>>
    /\ UNCHANGED <<lsbVars, findVars, jpegVars, searchVars, batchVars>>

\* wg.Wait(): returns once every worker has called wg.Done()
WaitWorkers ==
    /\ mainPc = "wait"
    /\ \A w \in Workers : wPc[w] = "done"
    /\ mainPc' = "closeResults"
    /\ UNCHANGED <<nFiles, fed, fileChanClosed, resultChanClosed, wPc, wFile,
                   wResult, aggPc, aggResult, results, returned>>
    /\ UNCHANGED <<lsbVars, findVars, jpegVars, searchVars, batchVars>>

\* close(resultChan)
CloseResultChan ==
    /\ mainPc = "closeResults"
    /\ resultChanClosed' = TRUE
    /\ mainPc' = "return"
    /\ UNCHANGED <<nFiles, fed, fileChanClosed, wPc, wFile, wResult, aggPc,
                   aggResult, results, returned>>
    /\ UNCHANGED <<lsbVars, findVars, jpegVars, searchVars, batchVars>>

\* printSummary(&results); return results: the totals are read here, with no
\* synchronisation with the collecting goroutine
ReturnResults ==
    /\ mainPc = "return"
    /\ returned' = results
    /\ mainPc' = "done"
    /\ UNCHANGED <<nFiles, fed, fileChanClosed, resultChanClosed, wPc, wFile,
                   wResult, aggPc, aggResult, results>>
    /\ UNCHANGED <<lsbVars, findVars, jpegVars, searchVars, batchVars>>

ScanInit == ScanInputs /\ LSBIdle /\ FindingsIdle /\ JPEGIdle /\ SearchIdle /\ BatchIdle

ScanNext ==
    \/ \E w \in Workers : Feed(w)
    \/ CloseFileChan
    \/ \E w \in Workers : WorkerScan(w)
    \/ \E w \in Workers : Deliver(w)
    \/ \E w \in Workers : WorkerExit(w)
    \/ AggAppend
    \/ AggCount
    \/ AggExit
    \/ WaitWorkers
    \/ CloseResultChan
    \/ ReturnResults

SpecScan == ScanInit /\ [][ScanNext]_vars

\* The Go scheduler runs every goroutine that can take a step.
SpecScanFair == SpecScan /\ WF_vars(ScanNext)

(***************************************************************************)
(* Properties of the batch scan.                                           *)
(***************************************************************************)
ScanReturned == mainPc = "done"

FilesOf(rs) == {rs[i].file : i \in 1..Len(rs)}

\* C4: no lost results. When the batch scan over F paths returns, the
\* returned ScanResults holds exactly one ScanResult per path and its clean,
\* suspicious and confirmed counters sum to F.
C4_NoLostResults ==
    ScanReturned =>
        /\ Len(returned.Results) = nFiles
        /\ FilesOf(returned.Results) = 1..nFiles
        /\ returned.CleanFiles + returned.Suspicious + returned.ConfirmedC2 = nFiles

\* What the code does guarantee: nothing is counted twice, and the shared
\* totals are complete once the collecting goroutine has ended.
C4_EventuallyComplete ==
    /\ Len(results.Results) <= nFiles
    /\ aggPc = "done" =>
          /\ Len(results.Results) = nFiles
          /\ FilesOf(results.Results) = 1..nFiles
          /\ results.CleanFiles + results.Suspicious + results.ConfirmedC2 = nFiles

\* A return that misses a result the collector still holds.
C4_Reached ==
    /\ ScanReturned /\ nFiles >= 1
    /\ Len(returned.Results) < nFiles

AllExited ==
    /\ mainPc = "done"
    /\ \A w \in Workers : wPc[w] = "done"
    /\ aggPc = "done"

Tokens ==
    { "Found", "text", "in", "data", "LSB", "lsb", "Shell", "shell",
      "entropy=7.95", "entropy=7.50", "score=0.9", "appended",
      "slight variation in LSB", "slight variation in lsb" }

Lower(tok) ==
    CASE tok = "Found" -> "found"
      [] tok = "LSB" -> "lsb"
      [] tok = "Shell" -> "shell"
      [] tok = "slight variation in LSB" -> "slight variation in lsb"
      [] tok = "standard JPEG pattern" -> "standard jpeg pattern"
      [] OTHER -> tok

Occurs(tok) ==
    CASE tok = "LSB" -> {"LSB"}
      [] tok = "slight variation in LSB" -> {"LSB"}
      [] tok = "slight variation in lsb" -> {"slight variation in lsb"}
      [] tok = "shell" -> {"shell"}
      [] tok = "entropy=7.95" -> {"entropy"}
      [] tok = "entropy=7.50" -> {"entropy"}
      [] OTHER -> {}

\* strings.Contains
Contains(text, needle) == \E i \in 1..Len(text) : needle \in Occurs(text[i])

\* strings.ToLower
ToLower(text) == [i \in 1..Len(text) |-> Lower(text[i])]

\* The variant that sets the overall level to the level of the last finding.
AddFindingOverwrite(r, description, confidence, level, details) ==
    [Findings |-> Append(r.Findings,
                    [Description |-> description, Confidence |-> confidence,
                     Level |-> level, Details |-> details]),
     Level |-> level]

\* func (r *ScanResult) AddFinding(desc, confidence, level, details)
AddFinding(r, description, confidence, level, details) ==
    [Findings |-> Append(r.Findings,
                    [Description |-> description, Confidence |-> confidence,
                     Level |-> level, Details |-> details]),
     Level |-> IF level > r.Level THEN level ELSE r.Level]

strongIndicators ==
    { "shell", "password", "secret", "admin", "http://", "https://", "ftp://",
      ".exe", ".dll", ".sh", ".cmd" }

commonPatterns ==
    { "slight variation in LSB", "minor statistical anomaly",
      "low entropy distribution", "standard JPEG pattern" }

\* extractEntropyValue: the number behind the first "entropy=" that is followed
\* by digits, a dot and digits, times 100; 0 when there is none.
EntropyOfToken(tok) ==
    CASE tok = "entropy=7.95" -> 795
      [] tok = "entropy=7.50" -> 750
      [] OTHER -> 0

RECURSIVE extractEntropyValue(_)
extractEntropyValue(text) ==
    IF text = <<>> THEN 0
    ELSE IF EntropyOfToken(Head(text)) # 0 THEN EntropyOfToken(Head(text))
    ELSE extractEntropyValue(Tail(text))

containsStrongIndicators(details) ==
    LET d == ToLower(details)
    IN \/ \E ind \in strongIndicators : Contains(d, ind)
       \/ Contains(d, "entropy") /\ extractEntropyValue(d) > 790

isCommonPattern(description, details) ==
    LET t == ToLower(description \o details)
    IN \E pat \in commonPatterns : Contains(t, Lower(pat))

\* The body of filterFindings' loop: whether finding f is kept.
KeepFinding(f) ==
    /\ Contains(f.Description, "LSB")
          => (~(f.Confidence < 9) /\ containsStrongIndicators(f.Details))
    /\ ~isCommonPattern(f.Description, f.Details)

\* A filter that keeps everything and puts the newest finding first.
filterFindingsNewestFirst(findings) ==
    [i \in 1..Len(findings) |-> findings[Len(findings) + 1 - i]]

RECURSIVE filterFindings(_)
filterFindings(findings) ==
    IF findings = <<>> THEN <<>>
    ELSE IF KeepFinding(Head(findings))
         THEN <<Head(findings)>> \o filterFindings(Tail(findings))
         ELSE filterFindings(Tail(findings))

\* What the detectors of the model report.
Descriptions ==
    { <<"Found", "text">>, <<"Found", "text", "in", "LSB", "data">> }

DetailTexts ==
    { <<"text">>, <<"Shell">>, <<"LSB", "entropy=7.95">>, <<"LSB", "entropy=7.50">>,
      <<"slight variation in LSB">> }

Confidences == {8, 9}

FindingsInputs ==
    /\ sr = [Findings |-> <<>>, Level |-> Clean]     \* ScanResult{Filename: filename}
    /\ srPc = "detect"
    /\ srFiltered = FALSE
    /\ detection = NoDetection

\* A detector calls result.AddFinding(...)
AddFindingCall ==
    /\ srPc = "detect" /\ Len(sr.Findings) < MaxFindings
    /\ \E d \in Descriptions, c \in Confidences, l \in Levels, t \in DetailTexts :
          sr' = AddFinding(sr, d, c, l, t)
    /\ UNCHANGED <<srPc, srFiltered, detection>>
    /\ UNCHANGED <<lsbVars, scanVars, jpegVars, searchVars, batchVars>>

\* scanFile: LoadImage fails; the failure is recorded and the result returned
LoadFailed ==
    /\ srPc = "detect"
    /\ sr' = AddFinding(sr, <<"Failed", "to", "open/parse", "image">>, 10,
                        Suspicious, <<"error">>)
    /\ srPc' = "emitted"
    /\ UNCHANGED <<srFiltered, detection>>
    /\ UNCHANGED <<lsbVars, scanVars, jpegVars, searchVars, batchVars>>

\* scanFile: result.Findings = filterFindings(result.Findings); return result
FilterAndReturn ==
    /\ srPc = "detect"
    /\ sr' = [sr EXCEPT !.Findings = filterFindings(sr.Findings)]
    /\ srPc' = "emitted"
    /\ srFiltered' = TRUE
    /\ UNCHANGED detection
    /\ UNCHANGED <<lsbVars, scanVars, jpegVars, searchVars, batchVars>>

FindingsInit == FindingsInputs /\ LSBIdle /\ ScanIdle /\ JPEGIdle /\ SearchIdle /\ BatchIdle

FindingsNext == AddFindingCall \/ LoadFailed \/ FilterAndReturn

SpecFindings == FindingsInit /\ [][FindingsNext]_vars

(***************************************************************************)
(* Properties of finding aggregation (under SpecFindings).                 *)
(***************************************************************************)
RECURSIVE MaxLevel(_)
MaxLevel(findings) ==
    IF findings = <<>> THEN Clean
    ELSE LET rest == MaxLevel(Tail(findings))
         IN IF Head(findings).Level > rest THEN Head(findings).Level ELSE rest

\* C6: monotonic severity. No step lowers the overall level of a ScanResult;
\* once it is ConfirmedC2 it stays ConfirmedC2 whatever finding is added.
C6_MonotonicSeverity ==
    [][ /\ sr'.Level >= sr.Level
        /\ sr.Level = ConfirmedC2 => sr'.Level = ConfirmedC2 ]_vars

\* C6 witness: a Suspicious finding added after a ConfirmedC2 one.
C6_Witness ==
    /\ Len(sr.Findings) = 2
    /\ sr.Findings[1].Level = ConfirmedC2
    /\ sr.Findings[2].Level = Suspicious
    /\ sr.Level = ConfirmedC2

\* C7: derived severity. After any sequence of AddFinding calls, and after the
\* filtering pass, the overall level is the maximum level among the findings
\* the result holds (Clean when it holds none).
C7_DerivedSeverity == sr.Level = MaxLevel(sr.Findings)

\* What holds of the code: the level is the maximum over the findings until
\* the filter runs, and never below the maximum afterwards.
C7_LevelBoundsFindings ==
    /\ ~srFiltered => sr.Level = MaxLevel(sr.Findings)
    /\ sr.Level >= MaxLevel(sr.Findings)

\* A filtered result whose level no remaining finding carries.
C7_Reached ==
    /\ srFiltered /\ sr.Findings = <<>> /\ sr.Level = ConfirmedC2

(***************************************************************************)
(* JPEG structural parsing: ExtractJPEGMetadata (jpeg_analyzer.go) and     *)
(* extractEntropyCodedData (the DCT parser).  A reader position p counts   *)
(* the bytes consumed; the next byte read is data[p + 1].                  *)
(***************************************************************************)
Ok(md) == [status |-> "ok", err |-> "", metadata |-> md]

\* return nil, err
Err(e) == [status |-> "error", err |-> e, metadata |-> NewMetadata]

\* a run-time panic: the call does not return
Panic(e) == [status |-> "panic", err |-> e, metadata |-> NewMetadata]

\* int(lengthBytes[0])<<8 | int(lengthBytes[1]), the two bytes read at p
Uint16(data, p) == data[p + 1] * 256 + data[p + 2]

\* the n bytes that follow position p
Slice(data, p, n) == SubSeq(data, p + 1, p + n)

\* The error of io.ReadFull(reader, buf) with len(buf) = n at position p when
\* fewer than n bytes remain ("" when it succeeds; n = 0 always succeeds).
ReadFullErr(data, p, n) ==
    IF Len(data) - p >= n THEN ""
    ELSE IF Len(data) = p THEN "EOF" ELSE "unexpected EOF"

\* reader.UnreadByte() called twice after two ReadByte calls that left the
\* reader at p: only the most recently read byte can be unread, the second
\* call returns ErrInvalidUnreadByte (ignored) and moves nothing.
UnreadByteTwice(p) == p - 1

\* The loop that skips compressed data after an SOS header; the value is the
\* reader position it leaves.
RECURSIVE SkipScanData(_, _)
SkipScanData(data, q) ==
    IF q >= Len(data) THEN q
    ELSE IF data[q + 1] # markerPrefix THEN SkipScanData(data, q + 1)
    ELSE IF q + 1 >= Len(data) THEN q + 1
    ELSE IF data[q + 2] = 0 THEN SkipScanData(data, q + 2)
    ELSE UnreadByteTwice(q + 2)

\* Reading the length and the body of a DQT, SOF0, SOF2, DHT, COM or SOS
\* segment at position p: make([]byte, length-2) panics for length < 2.
ReadSegment(data, p) ==
    IF ReadFullErr(data, p, 2) # ""
    THEN [status |-> "error", err |-> ReadFullErr(data, p, 2), body |-> <<>>, pos |-> p]
    ELSE LET length == Uint16(data, p)
         IN IF length - 2 < 0
            THEN [status |-> "panic", err |-> "makeslice: len out of range",
                  body |-> <<>>, pos |-> p]
            ELSE IF ReadFullErr(data, p + 2, length - 2) # ""
            THEN [status |-> "error", err |-> ReadFullErr(data, p + 2, length - 2),
                  body |-> <<>>, pos |-> p]
            ELSE [status |-> "ok", err |-> "", body |-> Slice(data, p + 2, length - 2),
                  pos |-> p + length]

\* The failure of a segment read as the result of the call.
SegmentFailure(s) == IF s.status = "panic" THEN Panic(s.err) ELSE Err(s.err)

\* The reader position after the default case (any other marker) at p: a
\* failed read consumes what is left and the loop continues.
SkipOtherSegment(data, p) ==
    IF ReadFullErr(data, p, 2) # "" THEN Len(data)
    ELSE LET length == Uint16(data, p)
         IN IF length > 2
            THEN IF ReadFullErr(data, p + 2, length - 2) # "" THEN Len(data)
                 ELSE p + length
            ELSE p + 2

\* frameData[1..5] of an SOF0/SOF2 segment (0-based in the source)
FrameFields(md, frameData) ==
    [md EXCEPT !.Height = frameData[2] * 256 + frameData[3],
               !.Width = frameData[4] * 256 + frameData[5],
               !.Components = frameData[6]]

\* The marker loop of ExtractJPEGMetadata from reader position p.
RECURSIVE MarkerLoop(_, _, _)
MarkerLoop(data, p, md) ==
    IF p >= Len(data) THEN Ok(md)
    ELSE IF data[p + 1] # markerPrefix THEN MarkerLoop(data, p + 1, md)
    ELSE IF p + 1 >= Len(data) THEN Err("EOF")
    ELSE
      LET marker == data[p + 2]
          q == p + 2
          md1 == [md EXCEPT !.MarkerSequence = @ \o <<markerPrefix, marker>>]
          s == ReadSegment(data, q)
      IN CASE marker = markerEOI ->
                Ok([md1 EXCEPT !.HasAppendedData = Len(data) - q > 0,
                               !.AppendedDataSize = Len(data) - q])
           [] marker = markerDQT ->
                IF s.status # "ok" THEN SegmentFailure(s)
                ELSE MarkerLoop(data, s.pos,
                       [md1 EXCEPT !.QuantizationTables = Append(@, s.body)])
           [] marker \in {markerSOF0, markerSOF2} ->
                IF s.status # "ok" THEN SegmentFailure(s)
                ELSE IF Len(s.body) < 6 THEN Panic("index out of range")
                ELSE MarkerLoop(data, s.pos,
                       FrameFields([md1 EXCEPT !.IsProgressive = (marker = markerSOF2)],
                                   s.body))
           [] marker = markerDHT ->
                IF s.status # "ok" THEN SegmentFailure(s)
                ELSE MarkerLoop(data, s.pos,
                       [md1 EXCEPT !.HuffmanTables = Append(@, s.body)])
           [] marker = markerCOM ->
                IF s.status # "ok" THEN SegmentFailure(s)
                ELSE MarkerLoop(data, s.pos,
                       [md1 EXCEPT !.Comments = Append(@, s.body)])
           [] marker = markerSOS ->
                IF s.status # "ok" THEN SegmentFailure(s)
                ELSE MarkerLoop(data, SkipScanData(data, s.pos), md1)
           [] OTHER ->
                MarkerLoop(data, SkipOtherSegment(data, q), md1)

ExtractJPEGMetadata(data) ==
    IF Len(data) < 2 THEN Err("EOF")
    ELSE IF data[1] # 255 \/ data[2] # markerSOI THEN Err("not a valid JPEG file")
    ELSE MarkerLoop(data, 2,
           [NewMetadata EXCEPT !.MarkerSequence = <<data[1], data[2]>>])

\* The loop of extractEntropyCodedData; pos is the 0-based index of the source.
RECURSIVE EntropyLoop(_, _, _)
EntropyLoop(data, pos, entropyData) ==
    IF ~(pos < Len(data) - 1) THEN entropyData
    ELSE IF data[pos + 1] = 255 /\ pos + 1 < Len(data) /\ data[pos + 2] = 0
    THEN EntropyLoop(data, pos + 2, Append(entropyData, 255))
    ELSE IF data[pos + 1] = 255 /\ pos + 1 < Len(data) /\ data[pos + 2] >= 192
    THEN entropyData
    ELSE EntropyLoop(data, pos + 1, Append(entropyData, data[pos + 1]))

\* A collection that copies the raw bytes up to the first 0xFF.
RECURSIVE CopyToPrefix(_, _, _)
CopyToPrefix(data, pos, entropyData) ==
    IF ~(pos < Len(data) - 1) \/ data[pos + 1] = 255 THEN entropyData
    ELSE CopyToPrefix(data, pos + 1, Append(entropyData, data[pos + 1]))

extractEntropyCodedDataNoStuffing(data, startPos) == CopyToPrefix(data, startPos, <<>>)

extractEntropyCodedData(data, startPos) == EntropyLoop(data, startPos, <<>>)

(***************************************************************************)
(* JPEG inputs.  Two families of byte buffers, both beginning with SOI:    *)
(*  "scan":    SOI, optional segments, an SOS header, the logical scan     *)
(*             bytes L with every 0xFF stuffed as 0xFF 0x00, EOI, and      *)
(*             trail bytes after the EOI;                                  *)
(*  "segment": SOI, one segment whose length field declares `declared`     *)
(*             and which is followed by `body` bytes, then optionally EOI  *)
(*             and trail bytes.                                            *)
(***************************************************************************)
SOI == <<markerPrefix, markerSOI>>
EOI == <<markerPrefix, markerEOI>>

\* n bytes that are neither 0xFF nor 0x00
Filler(n) == [i \in 1..n |-> 65]

\* byte stuffing of the entropy-coded data: 0xFF is written as 0xFF 0x00
RECURSIVE Stuff(_)
Stuff(bs) ==
    IF bs = <<>> THEN <<>>
    ELSE (IF Head(bs) = 255 THEN <<255, 0>> ELSE <<Head(bs)>>) \o Stuff(Tail(bs))

ScanBytes == {0, 65, 217, 255}
ScanPrefixes == {<<>>, <<255, 219, 0, 3, 7>>, <<255, 224, 0, 2>>}
SOSHeaders == {<<255, 218, 0, 2>>, <<255, 218, 0, 8, 1, 1, 0, 0, 63, 0>>}
SegmentMarkers ==
    {markerDQT, markerSOF0, markerSOF2, markerDHT, markerCOM, markerSOS,
     markerAPP0, markerAPP1}

ScanInput ==
    \E pre \in ScanPrefixes, sos \in SOSHeaders,
       L \in SeqsUpTo(ScanBytes, MaxScanLen), k \in 0..MaxTrail :
        /\ jpegIn = [kind |-> "scan", pre |-> pre, marker |-> markerSOS,
                     declared |-> Len(sos) - 2, body |-> Len(sos) - 4, L |-> L,
                     start |-> 2 + Len(pre) + Len(sos), eoi |-> TRUE, trail |-> k]
        /\ jpegData = SOI \o pre \o sos \o Stuff(L) \o EOI \o Filler(k)

\* "rawscan": the bytes after the SOS header are written as they are, so a
\* 0xFF may be followed by 0x00, by a byte of 0x01-0xBF or by a marker code.
UnstuffedBytes == {0, 65, 191, 255}

UnstuffedScanInput ==
    \E pre \in ScanPrefixes, sos \in SOSHeaders,
       X \in SeqsUpTo(UnstuffedBytes, MaxScanLen), k \in 0..MaxTrail :
        /\ jpegIn = [kind |-> "rawscan", pre |-> pre, marker |-> markerSOS,
                     declared |-> Len(sos) - 2, body |-> Len(sos) - 4, L |-> X,
                     start |-> 2 + Len(pre) + Len(sos), eoi |-> TRUE, trail |-> k]
        /\ jpegData = SOI \o pre \o sos \o X \o EOI \o Filler(k)

SegmentInput ==
    \E m \in SegmentMarkers, d \in 0..MaxDeclared, b \in 0..MaxBody,
       e \in BOOLEAN, k \in 0..MaxTrail :
        /\ e \/ k = 0
        /\ jpegIn = [kind |-> "segment", pre |-> <<>>, marker |-> m,
                     declared |-> d, body |-> b, L |-> <<>>, start |-> 4 + d,
                     eoi |-> e, trail |-> k]
        /\ jpegData = SOI \o <<markerPrefix, m, d \div 256, d % 256>> \o Filler(b)
                        \o (IF e THEN EOI \o Filler(k) ELSE <<>>)

\* "raw": any bytes, with or without SOI and EOI markers.
RawBytes == {65, 217, 255}

RawInput ==
    \E bs \in SeqsUpTo(RawBytes, MaxRaw) :
        /\ jpegIn = [NoJPEGInput EXCEPT !.kind = "raw"]
        /\ jpegData = bs

JPEGInputs ==
    /\ ScanInput \/ UnstuffedScanInput \/ SegmentInput \/ RawInput
    /\ jpegRes = NotParsed /\ entropyRes = NotExtracted
    /\ appendedRes = NotLookedUp /\ dctRes = NotDecoded

ParseMetadata ==
    /\ jpegIn.kind # "none"
    /\ jpegRes.status = "none"
    /\ jpegRes' = ExtractJPEGMetadata(jpegData)
    /\ UNCHANGED <<jpegIn, jpegData, entropyRes, appendedRes, dctRes>>
    /\ UNCHANGED <<lsbVars, scanVars, findVars, searchVars, batchVars>>

\* The backward loop of CheckAppendedData from index i (0-based).
RECURSIVE LastEOILoop(_, _)
LastEOILoop(data, i) ==
    IF i < 0 THEN [has |-> FALSE, size |-> 0]
    ELSE IF data[i + 1] = 255 /\ data[i + 2] = 217
    THEN IF i + 2 < Len(data)
         THEN [has |-> TRUE, size |-> Len(data) - (i + 2)]
         ELSE [has |-> FALSE, size |-> 0]
    ELSE LastEOILoop(data, i - 1)

\* A forward search that answers at the first EOI marker.
RECURSIVE FirstEOILoop(_, _)
FirstEOILoop(data, i) ==
    IF i > Len(data) - 2 THEN [has |-> FALSE, size |-> 0]
    ELSE IF data[i + 1] = 255 /\ data[i + 2] = 217
    THEN IF i + 2 < Len(data)
         THEN [has |-> TRUE, size |-> Len(data) - (i + 2)]
         ELSE [has |-> FALSE, size |-> 0]
    ELSE FirstEOILoop(data, i + 1)

CheckAppendedDataFirstEOI(data) == FirstEOILoop(data, 0)

CheckAppendedData(data) == LastEOILoop(data, Len(data) - 2)

CheckAppended ==
    /\ jpegIn.kind # "none"
    /\ ~appendedRes.ran
    /\ appendedRes' = [ran |-> TRUE, has |-> CheckAppendedData(jpegData).has,
                       size |-> CheckAppendedData(jpegData).size]
    /\ UNCHANGED <<jpegIn, jpegData, jpegRes, entropyRes, dctRes>>
    /\ UNCHANGED <<lsbVars, scanVars, findVars, searchVars, batchVars>>

ExtractEntropy ==
    /\ jpegIn.kind \in {"scan", "rawscan"}
    /\ ~entropyRes.ran
    /\ entropyRes' = [ran |-> TRUE,
                      data |-> extractEntropyCodedData(jpegData, jpegIn.start)]
    /\ UNCHANGED <<jpegIn, jpegData, jpegRes, appendedRes, dctRes>>
    /\ UNCHANGED <<lsbVars, scanVars, findVars, searchVars, batchVars>>

JPEGInit == JPEGInputs /\ LSBIdle /\ ScanIdle /\ FindingsIdle /\ SearchIdle /\ BatchIdle

JPEGNext == ParseMetadata \/ ExtractEntropy \/ CheckAppended

SpecJPEG == JPEGInit /\ [][JPEGNext]_vars

(***************************************************************************)
(* Properties of the JPEG parsers.                                         *)
(***************************************************************************)
Parsed == jpegRes.status # "none"

\* In a "scan" buffer: the number of bytes before the EOI that ends the scan.
ScanMarkerOffset == jpegIn.start + Len(Stuff(jpegIn.L))

\* The single segment of a "segment" buffer lies inside the buffer's body
\* bytes and is long enough for the fields its type holds.
SegmentFits ==
    /\ jpegIn.declared >= 2
    /\ jpegIn.declared - 2 <= jpegIn.body
    /\ jpegIn.marker \in {markerSOF0, markerSOF2} => jpegIn.declared - 2 >= 6

\* The length of the segment is below 2 or runs past the end of the buffer.
SegmentMalformed ==
    \/ jpegIn.declared < 2
    \/ jpegIn.declared - 2 > Len(jpegData) - 6

\* The marker walk of the buffer comes to an EOI marker.
ReachesEOI ==
    /\ jpegIn.eoi
    /\ jpegIn.kind = "scan" \/ (jpegIn.kind = "segment" /\ SegmentFits)

\* The result ExtractJPEGMetadata owes for an EOI followed by k bytes.
TrailingDataRecorded(k) ==
    /\ jpegRes.status = "ok"
    /\ jpegRes.metadata.HasAppendedData = (k > 0)
    /\ jpegRes.metadata.AppendedDataSize = k
    /\ LET ms == jpegRes.metadata.MarkerSequence
       IN SubSeq(ms, Len(ms) - 1, Len(ms)) = EOI

\* C8: stuffed-byte handling. In the entropy-coded data after an SOS header
\* every 0xFF 0x00 pair is one data byte 0xFF and does not end the scan, a
\* 0xFF 0xD9 pair ends it: extractEntropyCodedData collects exactly the
\* unstuffed bytes before that marker, and the skip loop of
\* ExtractJPEGMetadata stops at that marker, not before and not after it.
C8_StuffedBytes ==
    jpegIn.kind = "scan" =>
        /\ entropyRes.ran => entropyRes.data = jpegIn.L
        /\ Parsed => SkipScanData(jpegData, jpegIn.start)
                        \in ScanMarkerOffset..(ScanMarkerOffset + 2)

\* C8 witness: a scan whose data holds a stuffed 0xFF between other bytes has
\* been collected and walked.
C8_Witness ==
    /\ jpegIn.kind = "scan" /\ entropyRes.ran /\ Parsed
    /\ Len(jpegIn.L) >= 3 /\ jpegIn.L[2] = 255 /\ jpegIn.L[1] # 255
    /\ entropyRes.data = jpegIn.L
    /\ Len(jpegData) > jpegIn.start + Len(jpegIn.L) + 2 + jpegIn.trail - 1

\* C9: EOI and trailing data. Whenever the marker walk of a buffer that
\* begins with SOI reaches an EOI (also one that directly follows the
\* entropy-coded data of a scan), the parse ends at that EOI with success and
\* records the trailing-data flag as k > 0 and the size as k, the number of
\* bytes after the EOI.
C9_TrailingData == (Parsed /\ ReachesEOI) => TrailingDataRecorded(jpegIn.trail)

\* What holds of the code: the EOI is recognised when no scan precedes it.
C9_EOIAfterSegment ==
    (Parsed /\ ReachesEOI /\ jpegIn.kind = "segment" /\ jpegIn.marker # markerSOS)
        => TrailingDataRecorded(jpegIn.trail)

\* An EOI after scan data with bytes behind it, reported as no trailing data.
C9_Reached ==
    /\ Parsed /\ jpegIn.kind = "scan" /\ jpegIn.trail > 0
    /\ jpegRes.status = "ok" /\ ~jpegRes.metadata.HasAppendedData

\* C10: truncated or malformed segments fail the parse. If a length-bearing
\* segment declares a length below 2 or one that runs past the end of the
\* buffer, the parse returns an error: no success, no run-time fault.
C10_MalformedSegmentFails ==
    (Parsed /\ jpegIn.kind = "segment" /\ SegmentMalformed)
        => jpegRes.status = "error"

\* What holds of the code: a DQT, DHT, COM, SOF0, SOF2 or SOS segment whose
\* length is at least 2 and runs past the end of the buffer is an error.
C10_KnownSegmentPastEnd ==
    (/\ Parsed /\ jpegIn.kind = "segment"
     /\ jpegIn.marker \notin {markerAPP0, markerAPP1}
     /\ jpegIn.declared >= 2
     /\ jpegIn.declared - 2 > Len(jpegData) - 6)
        => jpegRes.status = "error"

\* A length below 2 that ends in a run-time panic.
C10_ReachedPanic ==
    /\ Parsed /\ jpegIn.kind = "segment" /\ jpegIn.declared < 2
    /\ jpegRes.status = "panic"

\* A segment running past the end of the buffer that is returned as success.
C10_ReachedSuccess ==
    /\ Parsed /\ jpegIn.kind = "segment" /\ jpegIn.declared >= 2
    /\ jpegIn.declared - 2 > Len(jpegData) - 6
    /\ jpegRes.status = "ok"

\* The 0-based indexes at which an EOI marker (FF D9) begins.
EOIIndexes(data) ==
    {i \in 0..(Len(data) - 2) : data[i + 1] = 255 /\ data[i + 2] = 217}

SetMax(S) == CHOOSE x \in S : \A y \in S : y <= x

\* C11: CheckAppendedData answers (true, len - (i + 2)) for the greatest index
\* i at which FF D9 occurs when at least one byte follows that marker, and
\* (false, 0) when no EOI occurs or the last EOI ends the buffer; the answer
\* is the same whatever ExtractJPEGMetadata made of the same buffer.
C11_TrailingDataLookup ==
    appendedRes.ran =>
        LET S == EOIIndexes(jpegData)
        IN IF S = {} \/ SetMax(S) + 2 = Len(jpegData)
           THEN ~appendedRes.has /\ appendedRes.size = 0
           ELSE /\ appendedRes.has
                /\ appendedRes.size = Len(jpegData) - (SetMax(S) + 2)

\* C11 witness: a buffer with two EOI markers and a byte after the last one,
\* whose metadata parse failed, answered with the size after the last EOI.
C11_Witness ==
    /\ appendedRes.ran /\ jpegRes.status = "error"
    /\ Cardinality(EOIIndexes(jpegData)) = 2
    /\ appendedRes.has /\ appendedRes.size = 1

(***************************************************************************)
(* ExtractLSBNoLength (lsb_extractor.go): every bit of the walk is packed  *)
(* into bytes, first bit most significant; the call stops at 20            *)
(* consecutive zero bytes.                                                 *)
(***************************************************************************)
\* The bits the walk over the whole grid yields, in order.
RECURSIVE StreamBitsRange(_, _, _, _, _)
StreamBitsRange(g, m, ord, lo, hi) ==
    IF lo > hi THEN <<>>
    ELSE IF lo = hi THEN PixelBits(g[lo], m, ord)
    ELSE LET mid == (lo + hi) \div 2
         IN StreamBitsRange(g, m, ord, lo, mid) \o StreamBitsRange(g, m, ord, mid + 1, hi)

StreamBits(g, m, ord, p) == StreamBitsRange(g, m, ord, p, Len(g))

\* A loop that never counts zero bytes.
NoZeroRunStop(bs, k, zeroCount) == 0

\* The zero-byte counting over the completed bytes bs from byte k on: the
\* number of the byte at which zeroCount reaches 20, or 0 if it never does.
\* st = [zeroCount, stop]; the bytes lo..hi in order, the first half and
\* then the second.
RECURSIVE ZeroRunRange(_, _, _, _)
ZeroRunRange(bs, lo, hi, st) ==
    IF lo > hi \/ st.stop > 0 THEN st
    ELSE IF lo = hi
         THEN IF bs[lo] = 0
              THEN [zeroCount |-> st.zeroCount + 1,
                    stop |-> IF st.zeroCount + 1 >= zeroRunLength THEN lo ELSE 0]
              ELSE [zeroCount |-> 0, stop |-> 0]
    ELSE LET mid == (lo + hi) \div 2
         IN ZeroRunRange(bs, mid + 1, hi, ZeroRunRange(bs, lo, mid, st))

ZeroRunStop(bs, k, zeroCount) ==
    ZeroRunRange(bs, k, Len(bs), [zeroCount |-> zeroCount, stop |-> 0]).stop

\* A return of the buffer as it is, null bytes at its end included.
KeepTrailingZeros(bs) == bs

\* for i >= 0 && data[i] == 0 { i-- }; data[:i+1]
RECURSIVE StripTrailingZeros(_)
StripTrailingZeros(bs) ==
    IF bs = <<>> THEN <<>>
    ELSE IF bs[Len(bs)] = 0 THEN StripTrailingZeros(SubSeq(bs, 1, Len(bs) - 1))
    ELSE bs

\* currentByte << (8 - bitCount) for the bits left over after the last byte
LastPartialByte(bits) ==
    LET bitCount == Len(bits) % 8
        rest == SubSeq(bits, Len(bits) - bitCount + 1, Len(bits))
    IN (ShiftIn(0, rest, 8) * Pow2(8 - bitCount)) % 256

ExtractLSBNoLength(g, m, ord) ==
    LET bits == StreamBits(g, m, ord, 1)
        full == PackBytes(bits)
        stop == ZeroRunStop(full, 1, 0)
    IN IF stop > 0
       THEN IF stop - zeroRunLength <= 0 THEN <<>>
            ELSE SubSeq(full, 1, stop - zeroRunLength)
       ELSE StripTrailingZeros(
                IF Len(bits) % 8 > 0 THEN Append(full, LastPartialByte(bits))
                ELSE full)

(***************************************************************************)
(* Grids for ExtractLSBNoLength: some pixels, a stretch of zero pixels,    *)
(* some pixels after it.                                                   *)
(***************************************************************************)
RawPixels == { <<0, 0, 0, 0>>, <<104, 0, 0, 0>>, <<0, 0, 0, 33>>, <<255, 255, 255, 255>> }
RawMasks == { <<8, 8, 8, 8>>, <<8, 8, 0, 0>>, <<1, 1, 1, 0>>, <<0, 0, 0, 0>> }

RawInputs ==
    /\ \E pre \in SeqsUpTo(RawPixels, MaxPrePixels), nz \in 0..MaxZeroPixels,
          post \in SeqsUpTo(RawPixels, MaxPostPixels) :
            grid = pre \o [i \in 1..nz |-> <<0, 0, 0, 0>>] \o post
    /\ gridW = Len(grid) /\ gridH = 1
    /\ mask \in RawMasks
    /\ order \in BitOrders
    /\ lsbPc = "raw" /\ hdr = <<0, 0, 0, 0>> /\ payload = <<>>
    /\ lsbRes = Failure("")
    /\ allocRes = NotAllocated /\ statRes = NotAnalyzed
    /\ rawRes = NotRaw /\ bfPc = "idle" /\ bfI = 0
    /\ bfR = 0 /\ bfG = 0 /\ bfB = 0
    /\ bfResults = <<>> /\ bfCalls = <<>>

\* ExtractLSBNoLength(img, mask, bitOrder)
ExtractRaw ==
    /\ lsbPc = "raw"
    /\ ~rawRes.ran
    /\ rawRes' = [ran |-> TRUE, data |-> ExtractLSBNoLength(grid, mask, order)]
    /\ UNCHANGED <<lsbVars, bfPc, bfI, bfR, bfG, bfB, bfResults, bfCalls>>
    /\ UNCHANGED <<scanVars, findVars, jpegVars, batchVars>>

RawInit == RawInputs /\ ScanIdle /\ FindingsIdle /\ JPEGIdle /\ BatchIdle

RawNext == ExtractRaw

SpecRaw == RawInit /\ [][RawNext]_vars

\* The byte stream packed from the grid: 8 stream bits per byte.
PackedStream == PackBytes(StreamBits(grid, mask, order, 1))

\* The byte numbers at which 20 consecutive zero bytes of bs begin.
ZeroRuns(bs) ==
    {j \in 1..(Len(bs) - zeroRunLength + 1) :
        \A i \in j..(j + zeroRunLength - 1) : bs[i] = 0}

SetMin(S) == CHOOSE x \in S : \A y \in S : x <= y

\* C17: zero-run termination. If the packed byte stream of the grid holds a
\* run of 20 consecutive zero bytes, ExtractLSBNoLength returns exactly the
\* bytes before the first such run.
C17_ZeroRunTermination ==
    (rawRes.ran /\ ZeroRuns(PackedStream) # {}) =>
        rawRes.data = SubSeq(PackedStream, 1, SetMin(ZeroRuns(PackedStream)) - 1)

\* C17 witness: bytes, then a zero run, then non-zero bytes; the bytes before
\* the run came back.
C17_Witness ==
    /\ rawRes.ran /\ ZeroRuns(PackedStream) # {}
    /\ SetMin(ZeroRuns(PackedStream)) > 4
    /\ PackedStream[Len(PackedStream)] # 0
    /\ Len(rawRes.data) = SetMin(ZeroRuns(PackedStream)) - 1

(***************************************************************************)
(* The acceptance tests of BruteForceLSB (utils.go).                       *)
(***************************************************************************)
\* (b >= 32 && b <= 126) || b == '\n' || b == '\r' || b == '\t'
PrintableByte(b) == (b >= 32 /\ b <= 126) \/ b = 10 \/ b = 13 \/ b = 9

printableCount(data) == Cardinality({i \in 1..Len(data) : PrintableByte(data[i])})

\* float64(printableCount) / float64(len(data)) > 0.8: the quotient of two
\* small integers exceeds the double 0.8 exactly when 5 * count > 4 * len.
IsASCIIPrintable(data) ==
    IF Len(data) = 0 THEN FALSE
    ELSE 5 * printableCount(data) > 4 * Len(data)

RECURSIVE FloorLog2(_)
FloorLog2(x) == IF x <= 1 THEN 0 ELSE 1 + FloorLog2(x \div 2)

CeilLog2(x) == IF x <= 1 THEN 0 ELSE 1 + FloorLog2(x - 1)

ByteValues(data) == {data[i] : i \in 1..Len(data)}

freq(data, v) == Cardinality({i \in 1..Len(data) : data[i] = v})

\* Integer bounds of len(data) * ComputeEntropy(data), from
\* entropy = sum over v of freq/size * (log2(size) - log2(freq)).
EntropyLowerTerm(data, v) == freq(data, v) * (FloorLog2(Len(data)) - CeilLog2(freq(data, v)))
EntropyUpperTerm(data, v) == freq(data, v) * (CeilLog2(Len(data)) - FloorLog2(freq(data, v)))

\* for i := 0; i < 256; i++ { if freq[i] > 0 { ... } }: the sum of the terms
\* of the byte values lo..hi, halving the range.
RECURSIVE EntropySum(_, _, _, _)
EntropySum(data, lo, hi, lower) ==
    IF lo = hi
    THEN IF freq(data, lo) > 0
         THEN (IF lower THEN EntropyLowerTerm(data, lo) ELSE EntropyUpperTerm(data, lo))
         ELSE 0
    ELSE LET mid == (lo + hi) \div 2
         IN EntropySum(data, lo, mid, lower) + EntropySum(data, mid + 1, hi, lower)

EntropyLower(data) == EntropySum(data, 0, 255, TRUE)
EntropyUpper(data) == EntropySum(data, 0, 255, FALSE)

\* ComputeEntropy(data) > 6.5.  The entropy is at most log2 of the number of
\* distinct byte values, and log2(90) < 6.5; beyond that the integer bounds
\* decide.  Data for which they do not decide has no value here.
EntropyExceeds65(data) ==
    IF Cardinality(ByteValues(data)) <= 90 THEN FALSE
    ELSE IF 2 * EntropyLower(data) > 13 * Len(data) THEN TRUE
    ELSE IF 2 * EntropyUpper(data) <= 13 * Len(data) THEN FALSE
    ELSE CHOOSE b \in {} : TRUE

\* An acceptance test that lets every result pass.
AcceptAnything(data) == TRUE

\* IsASCIIPrintable(data) || ComputeEntropy(data) > 6.5
Accepted(data) == IsASCIIPrintable(data) \/ EntropyExceeds65(data)

(***************************************************************************)
(* BruteForceLSB (lsb_extractor.go), one extraction loop iteration per     *)
(* step.  bfCalls logs every extraction as [mask, order, protocol].        *)
(***************************************************************************)
commonMasks == << <<1, 0, 0, 0>>, <<0, 1, 0, 0>>, <<0, 0, 1, 0>>, <<1, 1, 1, 0>> >>
bitOrders == <<LSBFirst, MSBFirst>>

\* for _, mask := range commonMasks { for _, order := range ... }: the pair
\* visited at position i (0..7)
CommonMaskAt(i) == commonMasks[(i \div 2) + 1]
OrderAt(i) == bitOrders[(i % 2) + 1]

Call(m, ord, protocol) == [mask |-> m, order |-> ord, protocol |-> protocol]
Candidate(m, ord, data) == [Mask |-> m, Order |-> ord, Data |-> data]

\* bytes.Equal(result.Data, data) for some result
isDuplicate(rs, data) == \E i \in 1..Len(rs) : rs[i].Data = data

\* results after the length-prefix attempt of one mask and order
WithLengthResult(rs, g, m, ord) ==
    LET res == ExtractData(g, m, ord)
    IN IF res.err = "" /\ Len(res.data) > 0 /\ Accepted(res.data)
       THEN Append(rs, Candidate(m, ord, res.data))
       ELSE rs

\* results after the no-length attempt of one mask and order
WithNoLengthResult(rs, g, m, ord) ==
    LET data == ExtractLSBNoLength(g, m, ord)
    IN IF Len(data) > 10 /\ Accepted(data) /\ ~isDuplicate(rs, data)
       THEN Append(rs, Candidate(m, ord, data))
       ELSE rs

\* First loop: common masks with the length prefix.
Tier1Length ==
    /\ bfPc = "tier1Length"
    /\ bfResults' = WithLengthResult(bfResults, grid, CommonMaskAt(bfI), OrderAt(bfI))
    /\ bfCalls' = Append(bfCalls, Call(CommonMaskAt(bfI), OrderAt(bfI), "length"))
    /\ IF bfI = 7 THEN bfPc' = "tier1NoLength" /\ bfI' = 0
       ELSE bfPc' = bfPc /\ bfI' = bfI + 1
    /\ UNCHANGED <<lsbVars, rawRes, bfR, bfG, bfB>>
    /\ UNCHANGED <<scanVars, findVars, jpegVars, batchVars>>

\* Second loop: common masks without a length prefix.
Tier1NoLength ==
    /\ bfPc = "tier1NoLength"
    /\ bfResults' = WithNoLengthResult(bfResults, grid, CommonMaskAt(bfI), OrderAt(bfI))
    /\ bfCalls' = Append(bfCalls, Call(CommonMaskAt(bfI), OrderAt(bfI), "nolength"))
    /\ IF bfI = 7 THEN bfPc' = "decide" /\ bfI' = 0
       ELSE bfPc' = bfPc /\ bfI' = bfI + 1
    /\ UNCHANGED <<lsbVars, rawRes, bfR, bfG, bfB>>
    /\ UNCHANGED <<scanVars, findVars, jpegVars, batchVars>>

\* A decision that enters the exhaustive loops whatever was found.
AlwaysExhaustive == TRUE

\* if len(results) == 0
NothingFound == Len(bfResults) = 0

Decide ==
    /\ bfPc = "decide"
    /\ IF NothingFound THEN bfPc' = "exhaustive" ELSE bfPc' = "returned"
    /\ bfR' = 0 /\ bfG' = 0 /\ bfB' = 0
    /\ UNCHANGED <<lsbVars, rawRes, bfI, bfResults, bfCalls>>
    /\ UNCHANGED <<scanVars, findVars, jpegVars, batchVars>>

\* "Skip combinations we've already tested" and "with no bits"
SkipCombination(r, g, b) ==
    \/ r = 1 /\ g = 0 /\ b = 0
    \/ r = 0 /\ g = 1 /\ b = 0
    \/ r = 0 /\ g = 0 /\ b = 1
    \/ r = 1 /\ g = 1 /\ b = 1
    \/ r + g + b = 0

\* One pass of "for _, order := range ..." in the exhaustive loops;
\* st = [results, calls].  An accepted length-prefixed result goes to the
\* next order (continue) without the no-length attempt.
OrderPass(st, g, m, ord) ==
    LET res == ExtractData(g, m, ord)
    IN IF res.err = "" /\ Len(res.data) > 0 /\ Accepted(res.data)
       THEN [results |-> Append(st.results, Candidate(m, ord, res.data)),
             calls |-> Append(st.calls, Call(m, ord, "length"))]
       ELSE [results |-> WithNoLengthResult(st.results, g, m, ord),
             calls |-> st.calls \o <<Call(m, ord, "length"), Call(m, ord, "nolength")>>]

\* The body of the innermost loop for rBits, gBits, bBits = r, g, b.
LoopBody(st, g, r, gB, b) ==
    IF SkipCombination(r, gB, b) THEN st
    ELSE OrderPass(OrderPass(st, g, <<r, gB, b, 0>>, LSBFirst),
                   g, <<r, gB, b, 0>>, MSBFirst)

\* The condition of "for bBits := 0; gBits <= 2; bBits++"
bBitsLoopCondition(gB, b) == gB <= 2

\* Where the three nested loops stand after the body ran at r, g, b
\* (done: all three loops have ended).
AfterBody(r, gB, b) ==
    IF bBitsLoopCondition(gB, b + 1) THEN [r |-> r, g |-> gB, b |-> b + 1, done |-> FALSE]
    ELSE IF gB + 1 <= 2 /\ bBitsLoopCondition(gB + 1, 0)
         THEN [r |-> r, g |-> gB + 1, b |-> 0, done |-> FALSE]
    ELSE IF r + 1 <= 2 /\ bBitsLoopCondition(0, 0)
         THEN [r |-> r + 1, g |-> 0, b |-> 0, done |-> FALSE]
    ELSE [r |-> r, g |-> gB, b |-> b, done |-> TRUE]

\* One iteration of the innermost exhaustive loop; bBits is followed up to
\* MaxBBits.
Exhaustive ==
    /\ bfPc = "exhaustive"
    /\ bfB <= MaxBBits
    /\ LET st == LoopBody([results |-> bfResults, calls |-> bfCalls], grid, bfR, bfG, bfB)
           nx == AfterBody(bfR, bfG, bfB)
       IN /\ bfResults' = st.results
          /\ bfCalls' = st.calls
          /\ bfR' = nx.r /\ bfG' = nx.g /\ bfB' = nx.b
          /\ bfPc' = IF nx.done THEN "returned" ELSE "exhaustive"
    /\ UNCHANGED <<lsbVars, rawRes, bfI>>
    /\ UNCHANGED <<scanVars, findVars, jpegVars, batchVars>>

(***************************************************************************)
(* Grids for BruteForceLSB: a bit stream written into a cover with one     *)
(* mask and bit order, in a grid that just holds it (plus some pixels).    *)
(***************************************************************************)
Hello == <<104, 101, 108, 108, 111>>
FourOfFive == <<104, 101, 108, 108, 0>>          \* 80% printable
TwoOfFive == <<104, 101, 0, 0, 0>>               \* 40% printable
HelloWorld == <<104, 101, 108, 108, 111, 32, 119, 111, 114, 108, 100, 33>>
TextFiller == [i \in 1..22 |-> 97]

BruteStreams ==
    { <<>>,
      MessageBits(Uint32Bytes(5), Hello),
      MessageBits(Uint32Bytes(5), FourOfFive),
      MessageBits(Uint32Bytes(5), TwoOfFive),
      MessageBits(Uint32Bytes(1), <<104>>),
      BytesToBits(HelloWorld),
      MessageBits(Uint32Bytes(5), FourOfFive) \o BytesToBits(TextFiller) }

BruteEmbedMasks ==
    { <<1, 0, 0, 0>>, <<0, 1, 0, 0>>, <<0, 0, 1, 0>>, <<1, 1, 1, 0>>,
      <<0, 0, 2, 0>>, <<2, 0, 0, 0>> }

\* The pixels needed to hold n bits with mask m.
PixelsFor(n, m) == (n + TotalBits(m) - 1) \div TotalBits(m)

\* 128 different bytes, none of them printable: entropy 7 bits per byte.
HighBytes == [i \in 1..128 |-> 127 + i]

\* The bits of the bytes bs, each most significant bit first.
BitsOf(bs) == [k \in 1..(8 * Len(bs)) |-> Bit(bs[((k - 1) \div 8) + 1], 7 - ((k - 1) % 8))]

BruteInputs ==
    /\ order \in BitOrders
    /\ \/ /\ mask \in BruteEmbedMasks
          /\ \E bits \in BruteStreams, c \in CoverPixels, slack \in 0..MaxSlack :
               LET n == IF bits = <<>> THEN 40 + slack
                        ELSE PixelsFor(Len(bits), mask) + slack
               IN grid = EmbedBits([p \in 1..n |-> c], mask, order, bits)
       \/ /\ mask = <<1, 1, 1, 0>>
          /\ \E c \in CoverPixels :
               grid = EmbedBits([p \in 1..PixelsFor(1024, mask) |-> c], mask, order,
                                BitsOf(HighBytes))
    /\ gridW = Len(grid) /\ gridH = 1
    /\ lsbPc = "brute" /\ hdr = <<0, 0, 0, 0>> /\ payload = <<>>
    /\ lsbRes = Failure("")
    /\ allocRes = NotAllocated /\ statRes = NotAnalyzed
    /\ rawRes = NotRaw
    /\ bfPc = "tier1Length" /\ bfI = 0
    /\ bfR = 0 /\ bfG = 0 /\ bfB = 0
    /\ bfResults = <<>> /\ bfCalls = <<>>

BruteInit == BruteInputs /\ ScanIdle /\ FindingsIdle /\ JPEGIdle /\ BatchIdle

BruteNext == Tier1Length \/ Tier1NoLength \/ Decide \/ Exhaustive

SpecBrute == BruteInit /\ [][BruteNext]_vars

(***************************************************************************)
(* Properties of BruteForceLSB.                                            *)
(***************************************************************************)
Protocols == {"length", "nolength"}

\* Tier 1: the four common masks with both bit orders and both protocols.
Tier1Calls ==
    {Call(commonMasks[i], ord, pr) : i \in 1..4, ord \in BitOrders, pr \in Protocols}

\* The exhaustive tier: R, G, B bit counts in 0..2, alpha 0, a non-zero sum.
ExhaustiveMasks ==
    {<<r, g, b, 0>> : r \in 0..2, g \in 0..2, b \in 0..2} \ {<<0, 0, 0, 0>>}

ExhaustiveCalls ==
    {Call(m, ord, pr) : m \in ExhaustiveMasks, ord \in BitOrders, pr \in Protocols}

CallsMade == {bfCalls[i] : i \in 1..Len(bfCalls)}

\* An extraction of tier 1 on grid g gives a result that passes the tests.
Tier1Yields(g) ==
    \E i \in 1..4, ord \in BitOrders :
        \/ LET res == ExtractData(g, commonMasks[i], ord)
           IN res.err = "" /\ Len(res.data) > 0 /\ Accepted(res.data)
        \/ LET data == ExtractLSBNoLength(g, commonMasks[i], ord)
           IN Len(data) > 10 /\ Accepted(data)

\* C12: tier ordering. Tier 1 (the four common masks with both bit orders
\* and both protocols) runs on every call; the exhaustive tier runs if and
\* only if tier 1 produced no accepted candidate, and never starts before
\* tier 1 has finished.
C12_TierOrdering ==
    [][ /\ bfPc = "decide" =>
              /\ Len(bfCalls) = 16 /\ CallsMade = Tier1Calls
              /\ bfPc' = "exhaustive" <=> ~Tier1Yields(grid)
        /\ (bfPc # "exhaustive" /\ bfPc' = "exhaustive") => bfPc = "decide"
        /\ Len(bfCalls') > 16 => bfPc = "exhaustive"
        /\ bfPc' = "returned" => bfPc \in {"decide", "exhaustive"} ]_vars

\* C12 witness: the exhaustive tier at work after the sixteen extractions of
\* tier 1 gave nothing.
C12_Witness ==
    /\ bfPc = "exhaustive" /\ Len(bfCalls) > 16
    /\ {bfCalls[i] : i \in 1..16} = Tier1Calls
    /\ bfCalls[17].mask \notin {commonMasks[i] : i \in 1..4}

\* The other case: tier 1 found a candidate and the call returned after it.
C12_WitnessReturned ==
    /\ bfPc = "returned" /\ CallsMade = Tier1Calls /\ bfResults # <<>>

\* The loops visit rBits, gBits, bBits = m before r, g, b.
VisitedBefore(m, r, g, b) ==
    \/ m[1] < r
    \/ m[1] = r /\ m[2] < g
    \/ m[1] = r /\ m[2] = g /\ m[3] < b

\* C13: exhaustive coverage. Whenever tier 1 yields nothing, every mask with
\* R, G, B bit counts in 0..2, alpha 0 and a non-zero sum is tried with both
\* bit orders and both protocols before the call returns, none is left
\* untried: the exhaustive loops stand at a combination of the tier with
\* every combination before it tried, and a return finds them all tried.
C13_ExhaustiveCoverage ==
    /\ bfPc = "exhaustive" =>
          /\ bfR \in 0..2 /\ bfG \in 0..2 /\ bfB \in 0..2
          /\ \A c \in ExhaustiveCalls :
                VisitedBefore(c.mask, bfR, bfG, bfB) => c \in CallsMade
    /\ (bfPc = "returned" /\ Len(bfCalls) > 16) => ExhaustiveCalls \subseteq CallsMade

\* What holds of the code: the exhaustive loops never leave rBits = 0,
\* gBits = 0, and the call does not return from them.
C13_StaysInFirstLoop ==
    bfPc = "exhaustive" => bfR = 0 /\ bfG = 0

\* The exhaustive tier trying a mask of three B bits.
C13_Reached ==
    /\ bfPc = "exhaustive"
    /\ Call(<<0, 0, 3, 0>>, MSBFirst, "length") \in CallsMade
    /\ Call(<<0, 1, 1, 0>>, LSBFirst, "length") \notin CallsMade

\* C14: deduplication. No two candidates of the returned list have equal data.
C14_NoDuplicateData ==
    bfPc = "returned" =>
        \A i, j \in 1..Len(bfResults) :
            i # j => bfResults[i].Data # bfResults[j].Data

\* A returned list with the same data under LSBFirst and MSBFirst.
C14_Reached ==
    /\ bfPc = "returned" /\ Len(bfResults) >= 2
    /\ bfResults[1].Data = bfResults[2].Data
    /\ bfResults[1].Data = Hello

\* C15: acceptance filter. Every candidate BruteForceLSB holds or returns
\* has data that is at least 80% printable ASCII or whose byte entropy
\* exceeds 6.5 bits per byte.
C15_AcceptanceFilter ==
    \A i \in 1..Len(bfResults) :
        \/ 5 * printableCount(bfResults[i].Data) >= 4 * Len(bfResults[i].Data)
        \/ EntropyExceeds65(bfResults[i].Data)

\* C15 witness: a returned list although a length-prefixed extraction of
\* tier 1 succeeded with data that fails both tests; that data is not in it.
C15_Witness ==
    /\ bfPc = "returned" /\ bfResults # <<>>
    /\ \E i \in 1..4, ord \in BitOrders :
         LET res == ExtractData(grid, commonMasks[i], ord)
         IN /\ res.err = "" /\ ~Accepted(res.data)
            /\ ~isDuplicate(bfResults, res.data)

\* A candidate that is not printable and was accepted for its entropy.
C15_WitnessEntropy ==
    /\ bfPc = "returned" /\ Len(bfResults) = 1
    /\ printableCount(bfResults[1].Data) = 0
    /\ Len(bfResults[1].Data) >= 128

\* C16: brute force finds an embedded payload. Whenever ExtractData with a
\* common mask and either bit order succeeds with a payload that is at least
\* 80% printable, the returned list holds a candidate with that payload.
C16_FindsEmbeddedPayload ==
    bfPc = "returned" =>
        \A i \in 1..4, ord \in BitOrders :
            LET res == ExtractData(grid, commonMasks[i], ord)
            IN (res.err = "" /\ 5 * printableCount(res.data) >= 4 * Len(res.data))
                  => isDuplicate(bfResults, res.data)

\* What holds of the code: the payload is found when more than 80% of it is
\* printable.
C16_FindsPayloadAbove80 ==
    bfPc = "returned" =>
        \A i \in 1..4, ord \in BitOrders :
            LET res == ExtractData(grid, commonMasks[i], ord)
            IN (res.err = "" /\ 5 * printableCount(res.data) > 4 * Len(res.data))
                  => isDuplicate(bfResults, res.data)

\* A payload of exactly 80% printable bytes missing from the returned list.
C16_Reached ==
    /\ bfPc = "returned"
    /\ ExtractData(grid, mask, order) = [err |-> "", data |-> FourOfFive]
    /\ ~isDuplicate(bfResults, FourOfFive)

(***************************************************************************)
(* Properties of the filtering pass (under SpecFindings).                  *)
(***************************************************************************)
\* The step of scanFile that runs filterFindings.
FilterStep == ~srFiltered /\ srFiltered'

Findings(r) == {r.Findings[i] : i \in 1..Len(r.Findings)}

\* if strings.Contains(f.Description, "LSB")
LSBDerived(f) == Contains(f.Description, "LSB")

\* C18: filtering rule for LSB-derived findings. The filtering pass removes
\* an LSB-derived finding (one the common-pattern rule lets through) exactly
\* when its confidence is below 9 and its details hold neither a strong
\* indicator token nor an entropy reading above 7.9; one with such an
\* indicator, or with confidence 9 or 10, stays.
C18_LSBFilterRule ==
    [][ FilterStep =>
          \A f \in Findings(sr) :
             (LSBDerived(f) /\ ~isCommonPattern(f.Description, f.Details)) =>
                (f \notin Findings(sr')
                    <=> (f.Confidence < 9 /\ ~containsStrongIndicators(f.Details))) ]_vars

\* What holds of the code: such a finding is removed when its confidence is
\* below 9 or it has no strong indicator.
C18_RemovedUnlessBoth ==
    [][ FilterStep =>
          \A f \in Findings(sr) :
             (LSBDerived(f) /\ ~isCommonPattern(f.Description, f.Details)) =>
                (f \notin Findings(sr')
                    <=> (f.Confidence < 9 \/ ~containsStrongIndicators(f.Details))) ]_vars

\* An LSB-derived finding of confidence 8 with a shell token about to be
\* filtered.
C18_Reached ==
    /\ srPc = "detect"
    /\ \E f \in Findings(sr) :
          /\ LSBDerived(f) /\ f.Confidence = 8 /\ f.Details = <<"Shell">>
          /\ f \notin Findings([Findings |-> filterFindings(sr.Findings)])

\* a is b with some elements left out.
RECURSIVE IsSubsequence(_, _)
IsSubsequence(a, b) ==
    IF a = <<>> THEN TRUE
    ELSE IF b = <<>> THEN FALSE
    ELSE IF Head(a) = Head(b) THEN IsSubsequence(Tail(a), Tail(b))
    ELSE IsSubsequence(a, Tail(b))

\* C19: filtering only removes. The findings after the filtering pass are a
\* subsequence of the findings before it: every survivor keeps its
\* description, confidence, level and details, survivors keep their order,
\* and no finding is added.
C19_FilterOnlyRemoves ==
    [][ FilterStep =>
          /\ IsSubsequence(sr'.Findings, sr.Findings)
          /\ Len(sr'.Findings) <= Len(sr.Findings) ]_vars

\* C19 witness: a filtered result whose one survivor is not ConfirmedC2, with
\* the ConfirmedC2 level left by a finding that was removed.
C19_Witness ==
    /\ srFiltered /\ Len(sr.Findings) = 1
    /\ sr.Level = ConfirmedC2
    /\ sr.Findings[1].Level = Suspicious
    /\ LSBDerived(sr.Findings[1])

(***************************************************************************)
(* The batch scan of a directory, one file at a time                       *)
(* (scanDirectorySequential), with scanFile and runJPEGAnalysis.  A file   *)
(* is [jpg: its name ends in .jpg or .jpeg, data: its bytes, image:        *)
(* LoadImage decodes it].  What the detectors that follow a successful     *)
(* parse or decode report is chosen freely among a few findings.           *)
(***************************************************************************)
JPEGFailure == <<"Failed", "to", "extract", "JPEG", "metadata">>
LoadFailure == <<"Failed", "to", "open/parse", "image">>

NewFinding(description, confidence, level, details) ==
    [Description |-> description, Confidence |-> confidence,
     Level |-> level, Details |-> details]

\* result.AddFinding(...) for each finding of fs in turn
RECURSIVE AddFindings(_, _)
AddFindings(r, fs) ==
    IF fs = <<>> THEN r
    ELSE AddFindings(AddFinding(r, Head(fs).Description, Head(fs).Confidence,
                                Head(fs).Level, Head(fs).Details), Tail(fs))

\* What CheckQuantizationTables and AnalyzeJPEG may add.
JPEGDetections ==
    { <<>>,
      <<NewFinding(<<"Modified", "quantization", "tables", "detected">>, 7,
                   Suspicious, <<"text">>)>> }

\* What the statistical and LSB detectors may add.
PixelDetections ==
    { <<>>,
      <<NewFinding(<<"Found", "text", "in", "LSB", "data">>, 8, Suspicious, <<"text">>)>>,
      <<NewFinding(<<"Found", "text", "in", "LSB", "data">>, 9, ConfirmedC2, <<"Shell">>)>> }

\* The call of ExtractJPEGMetadata in runJPEGAnalysis panics.
MetadataPanics(f) == f.jpg /\ ExtractJPEGMetadata(f.data).status = "panic"

\* runJPEGAnalysis(filename, nil, &result)
runJPEGAnalysis(r, f, more) ==
    LET res == ExtractJPEGMetadata(f.data)
    IN IF res.status = "error"
       THEN AddFinding(r, JPEGFailure, 5, Suspicious, <<res.err>>)
       ELSE AddFindings(
                IF res.metadata.HasAppendedData
                THEN AddFinding(r, <<"Found", "appended", "data", "after", "EOF">>,
                                8, Suspicious, <<"appended">>)
                ELSE r,
                more)

\* scanFile(filename), for a file whose metadata parse does not panic
scanFile(f, jpegMore, pixelMore) ==
    LET r0 == [Findings |-> <<>>, Level |-> Clean]
        r1 == IF f.jpg THEN runJPEGAnalysis(r0, f, jpegMore) ELSE r0
    IN IF ~f.image
       THEN AddFinding(r1, LoadFailure, 10, Suspicious, <<"error">>)
       ELSE LET r2 == AddFindings(r1, pixelMore)
            IN [r2 EXCEPT !.Findings = filterFindings(r2.Findings)]

BatchData ==
    { <<255, 216, 255, 217>>,                  \* SOI, EOI
      <<255, 216, 255, 217, 1>>,               \* a byte after EOI
      <<0, 1>>,                                \* not a JPEG
      <<255, 216, 255, 219, 0, 5, 1>>,         \* DQT cut short
      <<255, 216, 255, 219, 0, 1>> }           \* DQT declaring length 1

BatchFiles == [jpg : BOOLEAN, data : BatchData, image : BOOLEAN]

BatchInputs ==
    /\ files \in SeqsUpTo(BatchFiles, MaxFiles)
    /\ batchPc = IF files = <<>> THEN "returned" ELSE "scan"
    /\ batchI = 1
    /\ batchResult = [Findings |-> <<>>, Level |-> Clean]
    /\ batchResults = [EmptyScanResults EXCEPT !.TotalFiles = Len(files)]

\* result := scanFile(f)
ScanFile ==
    /\ batchPc = "scan"
    /\ ~MetadataPanics(files[batchI])
    /\ \E jm \in JPEGDetections, pm \in PixelDetections :
          batchResult' = scanFile(files[batchI], jm, pm)
    /\ batchPc' = "update"
    /\ UNCHANGED <<files, batchI, batchResults>>
    /\ UNCHANGED <<lsbVars, scanVars, findVars, jpegVars, searchVars>>

\* result := scanFile(f), with a panic in ExtractJPEGMetadata that nothing
\* recovers: the program ends
ScanFilePanics ==
    /\ batchPc = "scan"
    /\ MetadataPanics(files[batchI])
    /\ batchPc' = "panicked"
    /\ UNCHANGED <<files, batchI, batchResult, batchResults>>
    /\ UNCHANGED <<lsbVars, scanVars, findVars, jpegVars, searchVars>>

\* updateResults(&results, result), and the next round of the loop
UpdateResults ==
    /\ batchPc = "update"
    /\ batchResults' =
          CountLevel([batchResults EXCEPT !.Results = Append(@, batchResult)],
                     batchResult.Level)
    /\ batchI' = batchI + 1
    /\ batchPc' = IF batchI = Len(files) THEN "returned" ELSE "scan"
    /\ UNCHANGED <<files, batchResult>>
    /\ UNCHANGED <<lsbVars, scanVars, findVars, jpegVars, searchVars>>

BatchInit ==
    BatchInputs /\ LSBIdle /\ ScanIdle /\ FindingsIdle /\ JPEGIdle /\ SearchIdle

BatchNext == ScanFile \/ ScanFilePanics \/ UpdateResults

SpecBatch == BatchInit /\ [][BatchNext]_vars

(***************************************************************************)
(* Properties of the batch scan over failing files (under SpecBatch).      *)
(***************************************************************************)
\* The file's parsing or decoding fails.
FileFails(f) ==
    \/ f.jpg /\ ExtractJPEGMetadata(f.data).status # "ok"
    \/ ~f.image

RecordsFailure(fd) == fd.Description \in {JPEGFailure, LoadFailure}

\* if f.Confidence < 9: the confidence filterFindings asks more than
LowConfidence(c) == c < 9

\* C20: a single file's failure never aborts a batch scan. The scan of a
\* directory never ends in a panic; the ScanResult of every file whose
\* parsing or decoding fails holds a low-confidence finding that records
\* the failure; and the scan returns with one ScanResult per file.
C20_FailureNeverAborts ==
    /\ batchPc # "panicked"
    /\ \A i \in 1..Len(batchResults.Results) :
          FileFails(files[i]) =>
             \E k \in 1..Len(batchResults.Results[i].Findings) :
                LET fd == batchResults.Results[i].Findings[k]
                IN RecordsFailure(fd) /\ LowConfidence(fd.Confidence)
    /\ batchPc = "returned" => Len(batchResults.Results) = Len(files)

\* What holds of the code: a file that fails with an error has a finding that
\* records it, and a scan that returns has scanned every file.
C20_ErrorsAreRecorded ==
    /\ \A i \in 1..Len(batchResults.Results) :
          FileFails(files[i]) =>
             \E k \in 1..Len(batchResults.Results[i].Findings) :
                RecordsFailure(batchResults.Results[i].Findings[k])
    /\ batchPc = "returned" => Len(batchResults.Results) = Len(files)

\* The scan ended by a panic at the first of two files, the second one a
\* sound image that is never scanned.
C20_ReachedPanic ==
    /\ batchPc = "panicked" /\ batchI = 1 /\ Len(files) = 2
    /\ ~FileFails(files[2])
    /\ batchResults.Results = <<>>

\* A file that LoadImage cannot decode, its failure recorded with the
\* highest confidence.
C20_ReachedConfidence10 ==
    /\ batchPc = "returned" /\ Len(files) = 1
    /\ ~files[1].jpg /\ ~files[1].image
    /\ batchResults.Results[1].Findings =
          <<NewFinding(LoadFailure, 10, Suspicious, <<"error">>)>>

(***************************************************************************)
(* Properties of the extractors on a mask without bits (under SpecRaw).    *)
(***************************************************************************)
\* C21: invalid mask. An extraction with a mask whose R, G, B and A bit
\* counts sum to zero fails with InvalidMask; it never gives an empty output
\* as if the extraction had run.  ExtractLSBNoLength returns bytes and no
\* error value, so its empty output is all a caller sees.
C21_InvalidMaskFailsFast ==
    (rawRes.ran /\ TotalBits(mask) = 0) =>
        /\ ExtractData(grid, mask, order).err \in InvalidMask
        /\ rawRes.data # <<>>

\* What holds of the code: ExtractData rejects the mask.
C21_ExtractDataRejects ==
    TotalBits(mask) = 0 => ExtractData(grid, mask, order) = Failure(ErrMask)

\* ExtractLSBNoLength run with a mask without bits on a grid of several
\* pixels, some of them not zero: nothing came back.
C21_Reached ==
    /\ rawRes.ran /\ TotalBits(mask) = 0
    /\ Len(grid) >= 3 /\ grid[1] # <<0, 0, 0, 0>>
    /\ rawRes.data = <<>>

(***************************************************************************)
(* ParseJPEGDCTCoefficients (the DCT parser).  pos is the 0-based index of *)
(* the source; data[k] of the source is data[k + 1] here.  A read at an    *)
(* index that is not in [0, len(data)) gives the outcome "outOfRange": an  *)
(* index expression panics, a slice expression panics or, within the       *)
(* capacity of the buffer, reads past its end.                             *)
(***************************************************************************)
ErrNotImplemented ==
    "failed to decode DCT coefficients: DCT coefficient decoding not fully implemented"
NotImplemented == {ErrNotImplemented}

DCTReturn(status, err) == [ran |-> TRUE, status |-> status, err |-> err, Blocks |-> <<>>]

\* return result, nil: result.Blocks is the empty slice it was created with
DCTSuccess == DCTReturn("ok", "")
DCTOutOfRange == DCTReturn("outOfRange", "index out of range")

\* k is an index of data
InRange(data, k) == k >= 0 /\ k < Len(data)

\* The SOS branch with pos behind the marker: numComponents = data[pos+2],
\* two bytes per component from pos+3; then decodeDCTCoefficients, which
\* always returns its error.
ScanHeader(data, pos) ==
    IF ~InRange(data, pos + 2) THEN DCTOutOfRange
    ELSE LET numComponents == data[pos + 3]
         IN IF numComponents > 0 /\ ~InRange(data, pos + 2 * numComponents + 2)
            THEN DCTOutOfRange
            ELSE DCTReturn("error", ErrNotImplemented)

\* The SOF branch: height, width and numComponents at pos+3..pos+7, three
\* bytes per component from pos+8.  "" when every read is in range.
FrameHeader(data, pos) ==
    IF ~InRange(data, pos + 7) THEN "outOfRange"
    ELSE LET numComponents == data[pos + 8]
         IN IF numComponents > 0 /\ ~InRange(data, pos + 3 * numComponents + 7)
            THEN "outOfRange"
            ELSE ""

\* The DQT branch: for tableOffset < pos+segmentLength, one byte of table
\* info and 64 bytes (precision 0) or 128 bytes of table.
RECURSIVE QuantTables(_, _, _)
QuantTables(data, tableOffset, end) ==
    IF ~(tableOffset < end) THEN ""
    ELSE LET size == IF data[tableOffset + 1] \div 16 = 0 THEN 64 ELSE 128
         IN IF ~InRange(data, tableOffset + size) THEN "outOfRange"
            ELSE QuantTables(data, tableOffset + 1 + size, end)

RECURSIVE SumBytes(_, _, _)
SumBytes(data, from, n) ==
    IF n = 0 THEN 0 ELSE data[from + 1] + SumBytes(data, from + 1, n - 1)

\* The DHT branch: one byte of table info, 16 code counts, totalCodes values;
\* dcHuffmanTables and acHuffmanTables have four entries.
RECURSIVE HuffmanTables(_, _, _)
HuffmanTables(data, tableOffset, end) ==
    IF ~(tableOffset < end) THEN ""
    ELSE IF tableOffset + 17 > Len(data) THEN "outOfRange"
    ELSE LET totalCodes == SumBytes(data, tableOffset + 1, 16)
         IN IF tableOffset + 17 + totalCodes > Len(data) THEN "outOfRange"
            ELSE IF data[tableOffset + 1] % 16 >= 4 THEN "panic"
            ELSE HuffmanTables(data, tableOffset + 17 + totalCodes, end)

\* The body of a segment with a length field, at pos behind the marker.
SegmentBody(data, markerType, pos, segmentLength) ==
    IF markerType \in {192, 193, 194} THEN FrameHeader(data, pos)
    ELSE IF markerType = markerDQT THEN QuantTables(data, pos + 2, pos + segmentLength)
    ELSE IF markerType = markerDHT THEN HuffmanTables(data, pos + 2, pos + segmentLength)
    ELSE ""

\* for pos < len(data)-1 { ... }
RECURSIVE SegmentLoop(_, _, _)
SegmentLoop(data, pos, foundSOF) ==
    IF ~(pos < Len(data) - 1) THEN DCTSuccess
    ELSE IF data[pos + 1] # 255 THEN SegmentLoop(data, pos + 1, foundSOF)
    ELSE LET markerType == data[pos + 2]
             p == pos + 2
         IN IF markerType = 0 THEN SegmentLoop(data, p, foundSOF)
            ELSE IF markerType = markerSOS
            THEN IF ~foundSOF
                 THEN DCTReturn("error", "found SOS marker before SOF marker")
                 ELSE ScanHeader(data, p)
            ELSE IF markerType = markerEOI THEN DCTSuccess
            ELSE IF p + 2 > Len(data)
            THEN DCTReturn("error", "unexpected end of file while reading marker length")
            ELSE IF Uint16(data, p) < 2
            THEN DCTReturn("error", "invalid segment length")
            ELSE IF p + Uint16(data, p) > Len(data)
            THEN DCTReturn("error", "segment length exceeds file size")
            ELSE LET body == SegmentBody(data, markerType, p, Uint16(data, p))
                 IN IF body # "" THEN DCTReturn(body, "index out of range")
                    ELSE SegmentLoop(data, p + Uint16(data, p),
                                     foundSOF \/ markerType \in {192, 193, 194})

ParseJPEGDCTCoefficients(data) ==
    IF Len(data) < 2 \/ data[1] # 255 \/ data[2] # markerSOI
    THEN DCTReturn("error", "not a valid JPEG file")
    ELSE SegmentLoop(data, 2, FALSE)

(***************************************************************************)
(* Buffers for the DCT parser: SOI and up to MaxPieces pieces.             *)
(***************************************************************************)
MaxPieces == 3

Zeros(n) == [i \in 1..n |-> 0]

FrameSegment == <<255, 192, 0, 11, 8, 0, 1, 0, 1, 1, 1, 17, 0>>
ScanSegment == <<255, 218, 0, 8, 1, 1, 0, 0, 63, 0>>
HuffmanSegment == <<255, 196, 0, 19, 0>> \o Zeros(16)
TableSegments == { <<255, 219, 0, 2>>, HuffmanSegment, <<255, 224, 0, 2>> }
EntropyPieces == { <<65>>, <<255, 0>> }

Pieces ==
    TableSegments \cup EntropyPieces \cup
    { FrameSegment, ScanSegment, EOI,
      <<255, 192, 0, 2>>,                        \* SOF of length 2
      <<255, 218>>,                              \* SOS and nothing more
      <<255, 219, 0, 3, 0>>,                     \* DQT with one byte of table
      <<255, 196, 0, 3, 0>>,                     \* DHT with one byte of table
      <<255, 196, 0, 19, 4>> \o Zeros(16) }      \* DHT for table 4

RECURSIVE Concat(_)
Concat(ps) == IF ps = <<>> THEN <<>> ELSE Head(ps) \o Concat(Tail(ps))

DCTInputs ==
    /\ \E ps \in SeqsUpTo(Pieces, MaxPieces) :
          /\ jpegIn = [NoJPEGInput EXCEPT !.kind = "dct", !.L = ps]
          /\ jpegData = SOI \o Concat(ps)
    /\ jpegRes = NotParsed /\ entropyRes = NotExtracted
    /\ appendedRes = NotLookedUp /\ dctRes = NotDecoded

\* ParseJPEGDCTCoefficients(filename), the file holding jpegData
ParseDCT ==
    /\ jpegIn.kind = "dct"
    /\ ~dctRes.ran
    /\ dctRes' = ParseJPEGDCTCoefficients(jpegData)
    /\ UNCHANGED <<jpegIn, jpegData, jpegRes, entropyRes, appendedRes>>
    /\ UNCHANGED <<lsbVars, scanVars, findVars, searchVars, batchVars>>

DCTInit ==
    DCTInputs /\ LSBIdle /\ ScanIdle /\ FindingsIdle /\ SearchIdle /\ BatchIdle

DCTNext == ParseDCT

SpecDCT == DCTInit /\ [][DCTNext]_vars

(***************************************************************************)
(* Properties of the DCT parser (under SpecDCT).                           *)
(***************************************************************************)
\* Table and application segments only.
OnlyTables(ps) == \A i \in 1..Len(ps) : ps[i] \in TableSegments

\* A well formed buffer: SOI, tables, a frame header, tables, a scan header,
\* entropy-coded bytes, EOI.
WellFormedPieces(ps) ==
    \E f, sc \in 1..Len(ps) :
        /\ f < sc /\ sc < Len(ps)
        /\ ps[f] = FrameSegment /\ ps[sc] = ScanSegment /\ ps[Len(ps)] = EOI
        /\ \A i \in 1..(sc - 1) : i # f => ps[i] \in TableSegments
        /\ \A i \in (sc + 1)..(Len(ps) - 1) : ps[i] \in EntropyPieces

\* Every coefficient of every block is zero (so is the empty collection).
AllZeroBlocks(blocks) ==
    \A i \in 1..Len(blocks) : \A k \in 1..Len(blocks[i]) : blocks[i][k] = 0

\* C22: the DCT capability gap is explicit. ParseJPEGDCTCoefficients never
\* returns an empty or all-zero block collection with no error, and for a
\* well formed buffer it returns decoded blocks or fails with NotImplemented.
C22_ExplicitCapabilityGap ==
    dctRes.ran =>
        /\ dctRes.status = "ok" => ~AllZeroBlocks(dctRes.Blocks)
        /\ WellFormedPieces(jpegIn.L) =>
              \/ dctRes.status = "ok" /\ ~AllZeroBlocks(dctRes.Blocks)
              \/ dctRes.status = "error" /\ dctRes.err \in NotImplemented

\* What holds of the code: a well formed buffer with a scan fails with
\* NotImplemented, and no call returns a block.
C22_ScanNotImplemented ==
    dctRes.ran =>
        /\ dctRes.Blocks = <<>>
        /\ WellFormedPieces(jpegIn.L) =>
              dctRes.status = "error" /\ dctRes.err \in NotImplemented

\* Success with no block for a buffer that holds a frame header and no scan.
C22_Reached ==
    /\ dctRes.ran /\ dctRes.status = "ok" /\ dctRes.Blocks = <<>>
    /\ jpegIn.L = <<FrameSegment, EOI>>

\* A well formed buffer answered with NotImplemented.
C22_ReachedNotImplemented ==
    /\ dctRes.ran /\ WellFormedPieces(jpegIn.L) /\ dctRes.err \in NotImplemented

\* Segments whose length field covers the fields the parser reads.
SoundPieces == TableSegments \cup EntropyPieces \cup {FrameSegment, ScanSegment, EOI}

\* C29: ParseJPEGDCTCoefficients never reads the buffer outside its bounds.
\* For every buffer that begins with SOI, each index used for marker bytes
\* and for SOF, DQT, DHT and SOS header fields lies in [0, len(buffer)).
C29_ReadsWithinBounds ==
    dctRes.ran => dctRes.status # "outOfRange"

\* What holds of the code: buffers made of segments as long as their fields
\* are read within bounds.
C29_SoundSegmentsWithinBounds ==
    (dctRes.ran /\ \A i \in 1..Len(jpegIn.L) : jpegIn.L[i] \in SoundPieces)
        => dctRes.status # "outOfRange"

\* An SOS marker as the last two bytes of the buffer, after a frame header:
\* numComponents is read two bytes past the end.
C29_Reached ==
    /\ dctRes.ran /\ dctRes.status = "outOfRange"
    /\ jpegIn.L = <<FrameSegment, <<255, 218>>>>

\* A frame header whose segment length is 2, read past the end as well.
C29_ReachedFrame ==
    /\ dctRes.ran /\ dctRes.status = "outOfRange"
    /\ jpegIn.L = <<<<255, 192, 0, 2>>>>

(***************************************************************************)
(* Marker recognition inside a scan.                                       *)
(***************************************************************************)
\* The entropy-coded bytes of a buffer from 0-based position p when the
\* region ends only at a 0xFF followed by a byte >= 0xC0: a stuffed pair is
\* the byte 0xFF, every other byte is itself.
RECURSIVE RegionBytes(_, _)
RegionBytes(data, p) ==
    IF p + 1 >= Len(data) THEN <<>>
    ELSE IF data[p + 1] = 255 /\ data[p + 2] >= markerSOF0 THEN <<>>
    ELSE IF data[p + 1] = 255 /\ data[p + 2] = 0
    THEN <<255>> \o RegionBytes(data, p + 2)
    ELSE <<data[p + 1]>> \o RegionBytes(data, p + 1)

\* The 0-based position of the 0xFF at which the skip loop of the SOS case
\* left the region, or Len(data) when it ran to the end of the buffer.
SkipStop(data, p) ==
    LET q == SkipScanData(data, p)
    IN IF q >= Len(data) THEN Len(data) ELSE q - 1

\* C25: marker recognition inside a scan. The entropy-coded region after an
\* SOS header ends only at a 0xFF followed by a byte >= 0xC0; a 0xFF followed
\* by 0x00 or by a byte of 0x01-0xBF is consumed as data.
C25_RegionEndsAtMarker ==
    (jpegIn.kind = "rawscan" /\ Parsed /\ jpegRes.status = "ok") =>
        LET stop == SkipStop(jpegData, jpegIn.start)
        IN stop < Len(jpegData) =>
              /\ jpegData[stop + 1] = markerPrefix
              /\ jpegData[stop + 2] >= markerSOF0

\* extractEntropyCodedData collects the region with exactly that rule.
C25_EntropyRegionEndsAtMarker ==
    (jpegIn.kind = "rawscan" /\ entropyRes.ran) =>
        entropyRes.data = RegionBytes(jpegData, jpegIn.start)

\* ExtractJPEGMetadata left the region at a 0xFF followed by 0xBF.
C25_Reached ==
    /\ jpegIn.kind = "rawscan" /\ jpegRes.status = "ok"
    /\ jpegIn.L = <<65, 255, 191>>
    /\ SkipStop(jpegData, jpegIn.start) = jpegIn.start + 1

\* extractEntropyCodedData kept the same two bytes as data.
C25_ReachedEntropy ==
    /\ jpegIn.kind = "rawscan" /\ entropyRes.ran
    /\ jpegIn.L = <<65, 255, 191>>
    /\ entropyRes.data = <<65, 255, 191>>

(***************************************************************************)
(* The order of filtering in scanFile (under SpecFindings).                *)
(***************************************************************************)
\* C26: filtering order. For every scanned file the filtering pass runs once,
\* after the detectors and before the ScanResult is emitted; no ScanResult is
\* emitted unfiltered on any path of scanFile, the path on which the image
\* load fails included.
C26_NoResultEmittedUnfiltered == srPc = "emitted" => srFiltered

\* What holds of the code: the pass runs only as the last step before the
\* return, so at most once and after every detector.
C26_FilterIsLastStep ==
    [][FilterStep => (srPc = "detect" /\ srPc' = "emitted")]_vars

\* The JPEG analysis added a finding the filter removes, the image load then
\* failed, and the result was returned with that finding in it.
C26_Reached ==
    /\ srPc = "emitted" /\ ~srFiltered
    /\ Len(sr.Findings) = 2
    /\ sr.Findings[2].Confidence = 10
    /\ filterFindings(sr.Findings) # sr.Findings

(***************************************************************************)
(* The false-positive stage (FalsePositiveCheck.EvaluateDetection).        *)
(* A detected text is kept as what the stage asks of it: whether           *)
(* IsMetadataString accepts it and its length.  LSBEntropy and             *)
(* ImageComplexity are in thousandths; a float64 quotient is the fraction  *)
(* [num, den].                                                             *)
(***************************************************************************)
MaxTexts == 2

\* "JFIF", "Exif metadata block", "hello", "meet me at the old bridge"
TextSamples ==
    { [meta |-> TRUE, len |-> 4], [meta |-> TRUE, len |-> 19],
      [meta |-> FALSE, len |-> 5], [meta |-> FALSE, len |-> 25] }

EntropyReadings == {500, 990, 1000}
ComplexityReadings == {0, 850, 1000}

CountOf(texts, Sel(_)) == Cardinality({i \in 1..Len(texts) : Sel(texts[i])})

IsMetadataText(t) == t.meta
IsShortText(t) == t.len < 10

\* float64(count)/float64(len(texts)) > limit/10: with no text the quotient
\* is 0/0, which compares false
RatioAbove(count, total, limit) == total > 0 /\ 10 * count > limit * total

\* Check 1, in halves: +1.0 when most texts look like metadata, +0.5 when
\* most are shorter than 10
HiddenTextScore(r) ==
    LET n == Len(r.DetectedTexts)
    IN (IF RatioAbove(CountOf(r.DetectedTexts, IsMetadataText), n, 7)
        THEN 2 ELSE 0)
       + (IF n > 0 /\ RatioAbove(CountOf(r.DetectedTexts, IsShortText), n, 8)
          THEN 1 ELSE 0)

\* Check 2, in halves: +0.5 for a .png with LSBEntropy > 0.99, +0.5 for
\* ImageComplexity > 0.85
LSBAnomalyScore(r) ==
    (IF r.png /\ r.LSBEntropy > 990 THEN 1 ELSE 0)
    + (IF r.ImageComplexity > 850 THEN 1 ELSE 0)

\* falsePositiveScore / totalChecks, or 0.0 when no check applied
falsePositiveLikelihood(r) ==
    LET totalChecks == (IF r.HiddenTextFound THEN 1 ELSE 0)
                       + (IF r.LSBAnomaliesFound THEN 1 ELSE 0)
        score2 == (IF r.HiddenTextFound THEN HiddenTextScore(r) ELSE 0)
                  + (IF r.LSBAnomaliesFound THEN LSBAnomalyScore(r) ELSE 0)
    IN IF totalChecks > 0 THEN [num |-> score2, den |-> 2 * totalChecks]
       ELSE [num |-> 0, den |-> 1]

\* fp.EvaluateDetection(results, img): writes the likelihood into results
\* and returns falsePositiveLikelihood > 0.7
EvaluateDetection(r) ==
    LET l == falsePositiveLikelihood(r)
    IN [r EXCEPT !.evaluated = TRUE,
                 !.FalsePositiveLikelihood = l,
                 !.likely = 10 * l.num > 7 * l.den]

DetectionInputs ==
    /\ sr = [Findings |-> <<>>, Level |-> Clean]
    /\ srPc = "assess" /\ srFiltered = FALSE
    /\ \E h \in BOOLEAN, a \in BOOLEAN, pg \in BOOLEAN,
          ts \in SeqsUpTo(TextSamples, MaxTexts),
          en \in EntropyReadings, cx \in ComplexityReadings :
            detection = [NoDetection EXCEPT
                           !.HiddenTextFound = h, !.DetectedTexts = ts,
                           !.LSBAnomaliesFound = a, !.png = pg,
                           !.LSBEntropy = en, !.ImageComplexity = cx]

\* A detector reported a finding before the stage ran.
ReportFinding ==
    /\ srPc = "assess" /\ Len(sr.Findings) < 1
    /\ \E c \in Confidences, l \in Levels :
          sr' = AddFinding(sr, <<"Found", "text">>, c, l, <<"text">>)
    /\ UNCHANGED <<srPc, srFiltered, detection>>
    /\ UNCHANGED <<lsbVars, scanVars, jpegVars, searchVars, batchVars>>

Evaluate ==
    /\ srPc = "assess"
    /\ detection' = EvaluateDetection(detection)
    /\ srPc' = "assessed"
    /\ UNCHANGED <<sr, srFiltered>>
    /\ UNCHANGED <<lsbVars, scanVars, jpegVars, searchVars, batchVars>>

DetectionInit ==
    DetectionInputs /\ LSBIdle /\ ScanIdle /\ JPEGIdle /\ SearchIdle /\ BatchIdle

DetectionNext == ReportFinding \/ Evaluate

SpecDetection == DetectionInit /\ [][DetectionNext]_vars

\* C27: false-positive likelihood range. The likelihood the stage writes lies
\* in [0,1] for every combination of detector flags, entropy and complexity
\* readings and detected-text lists (the empty list included); the stage
\* discounts with it and suppresses no finding (C27_FindingsUntouched).
C27_LikelihoodRange ==
    detection.evaluated =>
        /\ 0 <= detection.FalsePositiveLikelihood.num
        /\ detection.FalsePositiveLikelihood.num
              <= detection.FalsePositiveLikelihood.den

\* What holds of the code: the likelihood lies in [0, 1.5].
C27_LikelihoodAtMostThreeHalves ==
    detection.evaluated =>
        /\ 0 <= detection.FalsePositiveLikelihood.num
        /\ 2 * detection.FalsePositiveLikelihood.num
              <= 3 * detection.FalsePositiveLikelihood.den

\* The stage removes no finding and changes none.
C27_FindingsUntouched == [][detection' # detection => sr' = sr]_vars

\* One short metadata-like text, hidden text reported: a likelihood of 1.5.
C27_Reached ==
    /\ detection.evaluated /\ detection.HiddenTextFound
    /\ ~detection.LSBAnomaliesFound
    /\ detection.DetectedTexts = <<[meta |-> TRUE, len |-> 4]>>
    /\ detection.FalsePositiveLikelihood = [num |-> 3, den |-> 2]

\* Hidden text reported with an empty text list: a likelihood of 0.
C27_ReachedEmptyList ==
    /\ detection.evaluated /\ detection.HiddenTextFound
    /\ detection.DetectedTexts = <<>>
    /\ detection.FalsePositiveLikelihood.num = 0
    /\ Len(sr.Findings) = 1

(***************************************************************************)
(* The number of attempts of BruteForceLSB (under SpecBrute).              *)
(***************************************************************************)
\* The 22 masks of the exhaustive tier that tier 1 has not tested.
UntestedMasks == ExhaustiveMasks \ {commonMasks[i] : i \in 1..Len(commonMasks)}

\* C28: bounded search. BruteForceLSB makes at most 4 masks x 2 orders x 2
\* protocols attempts in tier 1 and at most 22 masks x 2 orders x 2 protocols
\* in the exhaustive tier, and every loop counter of the exhaustive
\* enumeration stays within 0..2.
C28_BoundedSearch ==
    /\ bfR \in 0..2 /\ bfG \in 0..2 /\ bfB \in 0..2
    /\ bfPc \in {"tier1Length", "tier1NoLength", "decide"} =>
          Len(bfCalls) <= Len(commonMasks) * 2 * 2
    /\ Len(bfCalls) <= (Len(commonMasks) + Cardinality(UntestedMasks)) * 2 * 2

\* What holds of the code: tier 1 makes its 16 attempts and no more, and the
\* counters of the two outer loops stay within 0..2.
C28_TierOneBounded ==
    /\ bfR \in 0..2 /\ bfG \in 0..2
    /\ bfPc \in {"tier1Length", "tier1NoLength"} =>
          Len(bfCalls) < Len(commonMasks) * 2 * 2
    /\ bfPc \in {"decide", "returned"} => Len(bfCalls) = Len(commonMasks) * 2 * 2

\* The innermost loop running its body with bBits = 3, after the four
\* attempts with bBits = 2.
C28_Reached ==
    /\ bfPc = "exhaustive" /\ bfR = 0 /\ bfG = 0 /\ bfB = 3
    /\ Len(bfCalls) = Len(commonMasks) * 2 * 2 + 4

(***************************************************************************)
(* The end of the bytes ExtractLSBNoLength returns (under SpecRaw).        *)
(***************************************************************************)
\* The packed bytes with the bits left over after the last full byte as one
\* more byte, aligned to its most significant bit.
PaddedStream ==
    LET bits == StreamBits(grid, mask, order, 1)
    IN IF Len(bits) % 8 > 0 THEN Append(PackBytes(bits), LastPartialByte(bits))
       ELSE PackBytes(bits)

IsPrefixOf(a, b) == Len(a) <= Len(b) /\ a = SubSeq(b, 1, Len(a))

\* C30: no trailing zero bytes. For every grid, mask and bit order the bytes
\* ExtractLSBNoLength returns are a prefix of the packed byte stream that is
\* empty or ends in a non-zero byte, whether the extraction stopped at a run
\* of 20 zero bytes or at the end of the grid, and they are empty when every
\* packed byte is zero.
C30_NoTrailingZeros ==
    rawRes.ran =>
        /\ IsPrefixOf(rawRes.data, PaddedStream)
        /\ rawRes.data = <<>> \/ rawRes.data[Len(rawRes.data)] # 0
        /\ (\A i \in 1..Len(PaddedStream) : PaddedStream[i] = 0)
              => rawRes.data = <<>>

\* C30 witness: the grid ended in fewer than 20 zero bytes after other
\* bytes; the bytes before them came back.
C30_Witness ==
    /\ rawRes.ran /\ ZeroRuns(PackedStream) = {}
    /\ Len(PaddedStream) > 0 /\ PaddedStream[Len(PaddedStream)] = 0
    /\ rawRes.data # <<>> /\ Len(rawRes.data) < Len(PaddedStream)

\* A stream of zero bytes only, shorter than 20 bytes: nothing came back.
C30_WitnessAllZero ==
    /\ rawRes.ran /\ TotalBits(mask) > 0
    /\ Len(PaddedStream) \in 1..(zeroRunLength - 1)
    /\ \A i \in 1..Len(PaddedStream) : PaddedStream[i] = 0
    /\ rawRes.data = <<>>

\* A last byte made of left-over bits came back as the end of the result.
C30_WitnessPartialByte ==
    /\ rawRes.ran /\ Len(StreamBits(grid, mask, order, 1)) % 8 > 0
    /\ rawRes.data = PaddedStream /\ rawRes.data # <<>>

(***************************************************************************)
(* ExtractMessageLSB (steganography.go): the length and the payload in the *)
(* lowest bit of the red channel, one bit per pixel.  The outcome kept is  *)
(* the allocation of the payload buffer.                                   *)
(***************************************************************************)
\* Step 1: lengthBuf after the loop over at most 32 pixels; a byte that got
\* fewer than 8 bits holds them in its low bits.
MessageLengthBuf(g) ==
    LET n == Min(Len(g), 32)
        bits == [k \in 1..n |-> g[k][1] % 2]
    IN [b \in 1..4 |->
          IF 8 * (b - 1) >= n THEN 0
          ELSE ShiftIn(0, SubSeq(bits, 8 * (b - 1) + 1, Min(8 * b, n)), 8)]

\* if length == 0 { return error }; ciphertext := make([]byte, length)
ExtractMessageLSB(g) ==
    IF MessageLengthBuf(g) = <<0, 0, 0, 0>>
    THEN [ran |-> TRUE, made |-> FALSE, size |-> <<0, 0, 0, 0>>]
    ELSE [ran |-> TRUE, made |-> TRUE, size |-> MessageLengthBuf(g)]

\* ExtractMessageLSB(img)
ExtractMessage ==
    /\ lsbPc = "embedded"
    /\ allocRes' = ExtractMessageLSB(grid)
    /\ lsbPc' = "extracted"
    /\ UNCHANGED <<grid, gridW, gridH, mask, order, hdr, payload, lsbRes,
                   statRes>>
    /\ UNCHANGED <<scanVars, findVars, jpegVars, searchVars, batchVars>>

MessageNext == EmbedMessage \/ EmbedHeader \/ ExtractMessage

SpecMessage == LSBInit /\ [][MessageNext]_vars

\* 0 < N <= maximum for the length N whose four big-endian bytes are buf
WithinMaximum(buf) == ~LengthRejected(buf)

\* C23: bounded allocation. A length-prefixed extraction allocates its
\* payload buffer only after the decoded length N has passed 0 < N <= maximum,
\* so the buffer never exceeds 100,000,000 bytes whatever the grid holds.
C23_BoundedAllocation ==
    (allocRes.ran /\ allocRes.made) => WithinMaximum(allocRes.size)

\* A header of 0xFFFFFFFF in the red channel and a buffer of that size.
C23_Reached ==
    /\ lsbPc = "extracted" /\ hdr = <<255, 255, 255, 255>>
    /\ mask = <<1, 0, 0, 0>>
    /\ allocRes.made /\ allocRes.size = <<255, 255, 255, 255>>

\* ExtractData (under SpecLSB) allocated the buffer for a header of exactly
\* the maximum.
C23_ReachedMaximum ==
    /\ lsbPc = "extracted" /\ hdr = Uint32Bytes(MaxLength)
    /\ allocRes.made /\ allocRes.size = hdr

(***************************************************************************)
(* The statistical engine (statistical_analysis.go).  The float64 scores   *)
(* are kept as exact fractions [nan, num, den]; nan is the value a         *)
(* division of zero by zero produces.                                      *)
(***************************************************************************)
MaxStatW == 2
MaxStatH == 2

RECURSIVE GCD(_, _)
GCD(a, b) == IF b = 0 THEN a ELSE GCD(b, a % b)

AbsInt(a) == IF a < 0 THEN -a ELSE a

NaN == [nan |-> TRUE, num |-> 0, den |-> 1]

\* float64(n) / float64(d) for integers n >= 0, d
Frac(n, d) ==
    IF d = 0 THEN (IF n = 0 THEN NaN ELSE [nan |-> FALSE, num |-> 1, den |-> 0])
    ELSE LET g == GCD(AbsInt(n), AbsInt(d))
             k == IF d < 0 THEN -g ELSE g
         IN [nan |-> FALSE, num |-> n \div k, den |-> d \div k]

FracAdd(a, b) ==
    IF a.nan \/ b.nan THEN NaN
    ELSE Frac(a.num * b.den + b.num * a.den, a.den * b.den)

\* a * (n / d), for the weights 0.3, 0.4 and the division by 3.0
FracScale(a, n, d) == IF a.nan THEN NaN ELSE Frac(a.num * n, a.den * d)

FracLeq(a, b) == a.num * b.den <= b.num * a.den

\* math.Max for two scores that are numbers
FracMax(a, b) == IF FracLeq(a, b) THEN b ELSE a

\* the LSB values of one channel: byte(r & 1) of every pixel, in raster order
ChannelLSBs(g, c) == [i \in 1..Len(g) |-> g[i][c] % 2]

Ones(lsbValues) == Cardinality({i \in 1..Len(lsbValues) : lsbValues[i] = 1})

\* uniformityScore(lsbValues):
\*   expected := len * 0.5; deviation := |ones - expected| / expected
\*   return 1.0 - math.Min(deviation*2.0, 1.0)
uniformityScore(lsbValues) ==
    LET n == Len(lsbValues)
        dev2 == 2 * AbsInt(2 * Ones(lsbValues) - n)
    IN IF n = 0 THEN NaN
       ELSE Frac(n - Min(dev2, n), n)

\* analyzeChannel(lsbValues, width).FirstOrderBias
FirstOrderBias(lsbValues) ==
    LET totalPairs == IF Len(lsbValues) = 0 THEN 0 ELSE Len(lsbValues) - 1
        consistentPairs ==
            Cardinality({i \in 1..totalPairs : lsbValues[i] = lsbValues[i + 1]})
    IN IF totalPairs > 0 THEN Frac(consistentPairs, totalPairs)
       ELSE Frac(1, 2)

\* math.Abs(0.5 - FirstOrderBias) * 2.0
BiasOf(lsbValues) ==
    LET f == FirstOrderBias(lsbValues)
    IN Frac(AbsInt(f.den - 2 * f.num), f.den)

\* calculatePatternScore(lsbValues, width)
calculatePatternScore(lsbValues, width) ==
    LET n == Len(lsbValues)
        at(idx) == lsbValues[idx + 1]
        rows == n \div width
        hRepeats ==
            Cardinality({<<x, y>> \in (3..(width - 1)) \X (0..(rows - 1)) :
                LET idx == y * width + x
                IN /\ idx < n
                   /\ at(idx) = at(idx - 2)
                   /\ at(idx - 1) = at(idx - 3)})
        horizontal == Frac(hRepeats, (width - 3) * rows)
        vRepeats ==
            Cardinality({<<x, y>> \in (0..(width - 1)) \X (3..(rows - 1)) :
                LET idx == y * width + x
                IN /\ idx < n
                   /\ at(idx) = at((y - 2) * width + x)
                   /\ at((y - 1) * width + x) = at((y - 3) * width + x)})
        vertical == Frac(vRepeats, (rows - 3) * width)
    IN IF n <= 3 \/ width <= 3 THEN Frac(0, 1)
       ELSE IF n < width * 4 THEN Frac(0, 1)
       ELSE IF rows <= 3 THEN horizontal
       ELSE FracMax(horizontal, vertical)

Sum3(a, b, c) == FracAdd(FracAdd(a, b), c)

\* AnalyzeLSBStatistics(img).AnomalyScore
\*   = 0.3*dist.Uniformity + 0.4*dist.PatternScore + 0.3*biasScore
AnalyzeLSBStatistics(g, width) ==
    LET r == ChannelLSBs(g, 1)
        gr == ChannelLSBs(g, 2)
        b == ChannelLSBs(g, 3)
        Uniformity ==
            FracScale(Sum3(uniformityScore(r), uniformityScore(gr),
                           uniformityScore(b)), 1, 3)
        PatternScore ==
            FracScale(Sum3(calculatePatternScore(r, width),
                           calculatePatternScore(gr, width),
                           calculatePatternScore(b, width)), 1, 3)
        biasScore == FracScale(Sum3(BiasOf(r), BiasOf(gr), BiasOf(b)), 1, 3)
        score == Sum3(FracScale(Uniformity, 3, 10), FracScale(PatternScore, 4, 10),
                      FracScale(biasScore, 3, 10))
    IN [ran |-> TRUE, nan |-> score.nan, num |-> score.num, den |-> score.den]

\* The LSB planes a channel is given: flat, stripes, alternating squares, one pixel.
Planes == {"zeros", "ones", "columns", "rows", "squares", "first"}

PlaneBit(pl, x, y) ==
    CASE pl = "zeros" -> 0
      [] pl = "ones" -> 1
      [] pl = "columns" -> x % 2
      [] pl = "rows" -> y % 2
      [] pl = "squares" -> (x + y) % 2
      [] pl = "first" -> IF x = 0 /\ y = 0 THEN 1 ELSE 0

\* A w x h grid of opaque pixels whose channels carry the three planes.
StatGrid(w, h, pr, pg, pb) ==
    [i \in 1..(w * h) |->
        LET x == (i - 1) % w
            y == (i - 1) \div w
        IN <<254 + PlaneBit(pr, x, y), 254 + PlaneBit(pg, x, y),
             254 + PlaneBit(pb, x, y), 255>>]

\* Grids from zero area up to the smallest sizes calculatePatternScore scores.
StatInputs ==
    /\ gridW \in 0..(MaxStatW + 2)
    /\ gridH \in 0..(MaxStatH + 2)
    /\ \E pr \in Planes, pg \in Planes, pb \in Planes :
          grid = StatGrid(gridW, gridH, pr, pg, pb)
    /\ mask = <<0, 0, 0, 0>> /\ order = LSBFirst
    /\ lsbPc = "stats" /\ hdr = <<0, 0, 0, 0>> /\ payload = <<>>
    /\ lsbRes = [err |-> "", data |-> <<>>]
    /\ allocRes = NotAllocated /\ statRes = NotAnalyzed

\* AnalyzeLSBStatistics(img)
Analyze ==
    /\ lsbPc = "stats"
    /\ statRes' = AnalyzeLSBStatistics(grid, gridW)
    /\ lsbPc' = "analyzed"
    /\ UNCHANGED <<grid, gridW, gridH, mask, order, hdr, payload, lsbRes,
                   allocRes>>
    /\ UNCHANGED <<scanVars, findVars, jpegVars, searchVars, batchVars>>

StatsInit ==
    StatInputs /\ ScanIdle /\ FindingsIdle /\ JPEGIdle /\ SearchIdle /\ BatchIdle

StatsNext == Analyze

SpecStats == StatsInit /\ [][StatsNext]_vars

\* a score that is a number in [0,1]
InUnitRange(s) == ~s.nan /\ s.den > 0 /\ 0 <= s.num /\ s.num <= s.den

\* C24: anomaly score range. For every pixel grid, zero-area and 1-pixel
\* grids included, the anomaly score lies in [0,1] and is never undefined.
C24_AnomalyScoreRange == statRes.ran => InUnitRange(statRes)

\* The same range for the grids that have at least one pixel.
C24_NonEmptyGridRange ==
    (statRes.ran /\ Len(grid) > 0) => InUnitRange(statRes)

\* A zero-area grid was analysed and its score is not a number.
C24_Reached == lsbPc = "analyzed" /\ Len(grid) = 0 /\ statRes.nan

\* A 4 x 4 grid of alternating columns scores exactly 1.
C24_ReachedOne ==
    /\ lsbPc = "analyzed" /\ gridW = 4 /\ gridH = 4
    /\ ~statRes.nan /\ statRes.num = 1 /\ statRes.den = 1

====
